---- MODULE Spec2Model ----
(***************************************************************************)
(* A model of the Sectigo REST client (package sectigo): the authenticating *)
(* transport, the send-and-validate primitive sendRequest, the write, read  *)
(* and List operations with their queries, the JSON encoding of             *)
(* AutoRenewDetails, the bounded polling loop CheckDomainValidationStatus   *)
(* and the ListAll pagination loops.  One call runs at a time: a Start action *)
(* begins a looping operation, a step action runs one whole loop iteration, *)
(* a single-request operation is one action, and Return hands the result to *)
(* the caller.  The wrapped transport and the server are the environment:   *)
(* every response is drawn from a small set.                                *)
(***************************************************************************)
EXTENDS Integers, Sequences, FiniteSets, TLC

----------------------------------------------------------------------------
(* Bounds of the model *)

\* ListAll is explored for servers holding up to MaxPages full pages (+/- 1 item)
MaxPages == 2
\* CheckDomainValidationStatus is explored for maxRetries in -1 .. MaxRetries
MaxRetries == 3

(* Program constants *)

\* size := 200 in every ListAll loop
PageSize == 200
\* len(reason) > 512 in RevokeSSLById
MaxReasonLen == 512
\* http.StatusOK, http.StatusCreated, http.StatusNoContent
StatusOK == 200
StatusCreated == 201
StatusNoContent == 204
\* len(bodyStr) > 500 in sendRequest
MaxErrorBody == 500
\* the largest int strconv.Atoi yields, here that of a 32-bit build (a 64-bit
\* build clamps to 2^63 - 1 in the same way); the smallest is -MaxInt - 1
MaxInt == 2147483647

----------------------------------------------------------------------------
(* Values *)

Max(a, b) == IF a >= b THEN a ELSE b
Min(a, b) == IF a <= b THEN a ELSE b
\* ceil(a / b) for b > 0, a any integer
CeilDiv(a, b) == -((-a) \div b)

\* the response body an error message embeds (%s): how many bytes of the body
\* it shows and whether "... (truncated)" follows them
NoSnippet == [len |-> 0, marked |-> FALSE]

\* error values: the message of the error, the status code it embeds (%d) and
\* the response body it embeds (%s)
Err(msg, code) == [msg |-> msg, code |-> code, response |-> NoSnippet]
NilErr == Err("<nil>", 0)

MsgMaxRetries == "max retries reached, domain is still not validated"
MsgReason == "reason must be between 1 and 512 characters"
MsgCreating == "error creating request"
MsgParsingURL == "error parsing base URL"
MsgMaking == "error making request"
MsgReading == "error reading response body"
MsgStatus == "failed request, status code"
MsgUnmarshal == "error unmarshalling response"

\* header values
Absent == "<absent>"
CTypeDefault == "application/json;charset=utf-8"
CTypeUpper == "application/json;charset=UTF-8"
CTypePlain == "application/json"
NoHeaders == [login |-> Absent, customerUri |-> Absent, password |-> Absent,
              ContentType |-> Absent, Accept |-> Absent]

\* http.NewRequestWithContext(ctx, method, url, body): headers start empty
NewRequest(method, path, id, query, body) ==
    [method |-> method, path |-> path, id |-> id, query |-> query,
     body |-> body, hdr |-> NoHeaders]

\* a URL without a query; a query is the sequence of the [key, value] pairs
\* added to url.Values
NoQuery == <<>>

\* len(s) of the strings that appear in bodies
StrLen(s) ==
    CASE s = "" -> 0
      [] s = "FAILED" -> 6
      [] s = "VALIDATED" -> 9
      [] s \in {"NOT_VALIDATED", "not_validated"} -> 13

\* response bodies, with their length in bytes: a JSON array of items (each
\* item at least "{}", so 3n + 1 bytes for n > 0 items), a JSON object
\* {"status":"..."}, the JSON literal null, or n bytes that are no JSON
ArrayBody(items) ==
    [kind |-> "array", items |-> items, status |-> "",
     len |-> IF Len(items) = 0 THEN 2 ELSE 3 * Len(items) + 1]
ObjectBody(status) ==
    [kind |-> "object", items |-> <<>>, status |-> status, len |-> 13 + StrLen(status)]
NullBody == [kind |-> "null", items |-> <<>>, status |-> "", len |-> 4]
TextBody(n) == [kind |-> "invalid", items |-> <<>>, status |-> "", len |-> n]
InvalidBody == TextBody(12)

\* the X-Total-Count response header
NoTotal == [kind |-> "absent", n |-> 0]
EmptyTotal == [kind |-> "empty", n |-> 0]
BadTotal == [kind |-> "garbage", n |-> 0]
IntTotal(n) == [kind |-> "int", n |-> n]
\* a decimal numeral too large (sign 1) or too small (sign -1) for an int
HugeTotal(sign) == [kind |-> "overflow", n |-> sign]

\* what the wrapped transport does with a request: it fails (terr), or it
\* answers with a status, a header and a body whose read yields data and,
\* when rerr, a read error after data
TransportFail ==
    [terr |-> TRUE, status |-> 0, data |-> InvalidBody, rerr |-> FALSE, total |-> NoTotal]
Response(status, data, rerr, total) ==
    [terr |-> FALSE, status |-> status, data |-> data, rerr |-> rerr, total |-> total]

----------------------------------------------------------------------------
(* The authenticating transport and sendRequest *)

\* the body of the response of the wrapped transport, as an io.ReadCloser:
\* whether it was read until EOF or an error, and whether Close was called
Untouched == [drained |-> FALSE, closed |-> FALSE]
ReadAll(b) == [b EXCEPT !.drained = TRUE]
Close(b) == [b EXCEPT !.closed = TRUE]

\* authTransport.RoundTrip: the request as the wrapped transport receives it
\* and the response (or error) handed back; body tells what resp.Body is, the
\* body of the wrapped transport or a NopCloser over a buffer
RoundTripMutKeepContentType(t, req, env) ==
    LET sent == [req EXCEPT !.hdr = [@ EXCEPT !.login = t.login,
                                              !.ContentType =
                                                  IF @ = Absent THEN CTypeDefault ELSE @,
                                              !.customerUri = t.customerUri,
                                              !.password = t.password]]
    IN  IF env.terr
        THEN [sent |-> sent, failed |-> TRUE, resp |-> env,
              body |-> "none", transportBody |-> Untouched]
        ELSE IF t.debug
             THEN [sent |-> sent, failed |-> FALSE, resp |-> [env EXCEPT !.rerr = FALSE],
                   body |-> "buffer", transportBody |-> ReadAll(Untouched)]
             ELSE [sent |-> sent, failed |-> FALSE, resp |-> env,
                   body |-> "transport", transportBody |-> Untouched]

RoundTrip(t, req, env) ==
    LET sent == [req EXCEPT !.hdr = [@ EXCEPT !.login = t.login,
                                              !.ContentType = CTypeDefault,
                                              !.customerUri = t.customerUri,
                                              !.password = t.password]]
    IN  IF env.terr
        THEN [sent |-> sent, failed |-> TRUE, resp |-> env,
              body |-> "none", transportBody |-> Untouched]
        ELSE IF t.debug
             \* body, _ := io.ReadAll(resp.Body); resp.Body = NopCloser(buffer(body))
             THEN [sent |-> sent, failed |-> FALSE, resp |-> [env EXCEPT !.rerr = FALSE],
                   body |-> "buffer", transportBody |-> ReadAll(Untouched)]
             ELSE [sent |-> sent, failed |-> FALSE, resp |-> env,
                   body |-> "transport", transportBody |-> Untouched]

\* the status comparison of sendRequest
statusOKMutOpenEnd(expectedStatus, code) ==
    IF expectedStatus = 0
    THEN code >= 200 /\ code <= 300
    ELSE code = expectedStatus

statusOKMutAny2xx(expectedStatus, code) == code >= 200 /\ code < 300

statusOK(expectedStatus, code) ==
    IF expectedStatus = 0
    THEN code >= 200 /\ code < 300
    ELSE code = expectedStatus

\* bodyStr[:500] + "... (truncated)" when len(bodyStr) > 500
TruncateMutAtLimit(n) ==
    IF n >= MaxErrorBody
    THEN [len |-> MaxErrorBody, marked |-> TRUE]
    ELSE [len |-> n, marked |-> FALSE]

Truncate(n) ==
    IF n > MaxErrorBody
    THEN [len |-> MaxErrorBody, marked |-> TRUE]
    ELSE [len |-> n, marked |-> FALSE]

\* fmt.Errorf("failed request, status code: %d, response: %s", code, bodyStr)
StatusErr(code, bodyLen) ==
    [msg |-> MsgStatus, code |-> code, response |-> Truncate(bodyLen)]

\* sendRequest(ctx, req, expectedStatus): (resp, body, err), with the request
\* the wrapped transport saw and what that transport did (env)
sendRequest(c, req, expectedStatus, env) ==
    LET rt == RoundTrip(c.transport, req, env)
        \* io.ReadAll(resp.Body); resp.Body.Close()
        tb == IF rt.body = "transport"
              THEN Close(ReadAll(rt.transportBody))
              ELSE rt.transportBody
    IN  IF rt.failed
        THEN [sent |-> rt.sent, hasResp |-> FALSE, resp |-> rt.resp,
              hasBody |-> FALSE, body |-> InvalidBody, err |-> Err(MsgMaking, 0),
              transportBody |-> rt.transportBody, env |-> env]
        ELSE IF rt.resp.rerr
        THEN [sent |-> rt.sent, hasResp |-> TRUE, resp |-> rt.resp,
              hasBody |-> FALSE, body |-> InvalidBody, err |-> Err(MsgReading, 0),
              transportBody |-> tb, env |-> env]
        ELSE IF ~statusOK(expectedStatus, rt.resp.status)
        THEN [sent |-> rt.sent, hasResp |-> TRUE, resp |-> rt.resp,
              hasBody |-> TRUE, body |-> rt.resp.data,
              err |-> StatusErr(rt.resp.status, rt.resp.data.len),
              transportBody |-> tb, env |-> env]
        ELSE [sent |-> rt.sent, hasResp |-> TRUE, resp |-> rt.resp,
              hasBody |-> TRUE, body |-> rt.resp.data, err |-> NilErr,
              transportBody |-> tb, env |-> env]

\* json.Unmarshal(body, &target): target is a "slice" or a "struct"
UnmarshalFails(body, target) ==
    \/ body.kind = "invalid"
    \/ target = "slice" /\ body.kind \notin {"array", "null"}
    \/ target = "struct" /\ body.kind \notin {"object", "null"}

\* results handed to the caller: nil, a typed record or a slice
NilRes == [kind |-> "nil", isNil |-> TRUE, items |-> <<>>]
StructRes(kind) == [kind |-> kind, isNil |-> FALSE, items |-> <<>>]
\* a slice built by append from a nil slice: nil as long as nothing was appended
SliceRes(items) == [kind |-> "slice", isNil |-> (Len(items) = 0), items |-> items]

----------------------------------------------------------------------------
(* The environment: configurations, arguments and responses *)

\* Config values NewClient may be given; URL is kept as whether it parses
Configs ==
    [URL : {"valid", "malformed"}, Username : {"user"}, Customer : {"customer"},
     Password : {"secret"}, Debug : BOOLEAN]

\* NewClient(config)
NewClient(config) ==
    [BaseURL |-> config.URL,
     transport |-> [login |-> config.Username, customerUri |-> config.Customer,
                    password |-> config.Password, debug |-> config.Debug],
     Debug |-> config.Debug]

Ids == {1, 2}
Statuses == {199, 200, 201, 204, 299, 300, 404}

\* responses to a request whose body the caller does not look at
PlainResponses ==
    {TransportFail} \cup
    {Response(s, ObjectBody(""), re, NoTotal) : s \in Statuses, re \in BOOLEAN}

\* responses to a request whose body is decoded into a struct
StructResponses ==
    PlainResponses \cup
    {Response(s, b, FALSE, NoTotal) :
        s \in {StatusOK, 404}, b \in {InvalidBody, ArrayBody(<<>>)}}

----------------------------------------------------------------------------
(* State *)

VARIABLES
    client,     \* the Client NewClient returned
    pc,         \* "idle", "poll", "sleep", "list" or "done"
    op,         \* the operation in progress ("none" when idle)
    arg,        \* its arguments
    wire,       \* the requests the wrapped transport received during the call
    ret,        \* what the call returned: [res, err]
    last,       \* the last sendRequest call: its inputs and its error
    attempt,    \* CheckDomainValidationStatus: attempt
    sleeps,     \* CheckDomainValidationStatus: calls of time.Sleep
    outcomes,   \* CheckDomainValidationStatus: outcome of each poll
    position,   \* ListAll: position
    allItems,   \* ListAll: the accumulated slice
    srvN,       \* ListAll: X-Total-Count of the first page (-1: none)
    honest,     \* ListAll: every page so far was page position of srvN items
    maxTotal,   \* ListAll: largest TotalCount seen so far
    bare,       \* ListAll: every page so far had 200 items and no X-Total-Count
    pages,      \* ListAll: the number of items and the error of each page
    ctx         \* the context of the call: whether it is cancelled, and when

vars == <<client, pc, op, arg, wire, ret, last, attempt, sleeps, outcomes,
          position, allItems, srvN, honest, maxTotal, bare, pages, ctx>>

checkVars == <<attempt, sleeps, outcomes>>
listVars == <<position, allItems, srvN, honest, maxTotal, bare, pages>>

NoArg == [id |-> 0]
\* context.Background(), or a context nobody has cancelled yet
Background == [cancelled |-> FALSE, during |-> "none", polls |-> 0]
NoRet == [res |-> NilRes, err |-> NilErr]
NoLast == [called |-> FALSE, expected |-> 0, terr |-> FALSE, rerr |-> FALSE,
           status |-> 0, bodyKind |-> "none", bodyLen |-> 0, err |-> NilErr,
           transportBody |-> Untouched, total |-> NoTotal, env |-> TransportFail]

\* what is remembered of a sendRequest call
LastOf(expected, out) ==
    [called |-> TRUE, expected |-> expected, terr |-> ~out.hasResp,
     rerr |-> (out.hasResp /\ out.resp.rerr),
     status |-> (IF out.hasResp THEN out.resp.status ELSE 0),
     bodyKind |-> (IF out.hasBody THEN out.body.kind ELSE "none"),
     bodyLen |-> (IF out.hasBody THEN out.body.len ELSE 0), err |-> out.err,
     transportBody |-> out.transportBody,
     total |-> (IF out.hasResp THEN out.resp.total ELSE NoTotal), env |-> out.env]

\* what a ListAll loop keeps of the sendRequest call of a page: the answer of
\* the transport itself is kept in allItems, srvN and maxTotal only
PageLast(l) == [l EXCEPT !.env = TransportFail, !.total = NoTotal]

Init ==
    /\ client \in {NewClient(c) : c \in Configs}
    /\ pc = "idle"
    /\ op = "none"
    /\ arg = NoArg
    /\ wire = <<>>
    /\ ret = NoRet
    /\ last = NoLast
    /\ attempt = 0
    /\ sleeps = 0
    /\ outcomes = <<>>
    /\ position = 0
    /\ allItems = <<>>
    /\ srvN = -1
    /\ honest = TRUE
    /\ maxTotal = 0
    /\ bare = TRUE
    /\ pages = <<>>
    /\ ctx = Background

\* a call that ends within one action
Finish(name, a, sent, result, l) ==
    /\ pc' = "done"
    /\ op' = name
    /\ arg' = a
    /\ wire' = sent
    /\ ret' = result
    /\ last' = l
    /\ UNCHANGED <<client, checkVars, listVars, ctx>>

\* the caller takes the result
Return ==
    /\ pc = "done"
    /\ pc' = "idle"
    /\ op' = "none"
    /\ arg' = NoArg
    /\ wire' = <<>>
    /\ ret' = NoRet
    /\ last' = NoLast
    /\ attempt' = 0
    /\ sleeps' = 0
    /\ outcomes' = <<>>
    /\ position' = 0
    /\ allItems' = <<>>
    /\ srvN' = -1
    /\ honest' = TRUE
    /\ maxTotal' = 0
    /\ bare' = TRUE
    /\ pages' = <<>>
    /\ ctx' = Background
    /\ UNCHANGED client

\* the caller (another goroutine) cancels the context of the call in progress
Cancel ==
    /\ pc \in {"poll", "sleep", "list"}
    /\ ~ctx.cancelled
    /\ ctx' = [cancelled |-> TRUE, during |-> pc, polls |-> Len(outcomes)]
    /\ UNCHANGED <<client, pc, op, arg, wire, ret, last, checkVars, listVars>>

\* what http.DefaultTransport may do with a request: a request whose context
\* is done fails with the error of the context
AnswersMutIgnoreContext(cx, responses) == responses

Answers(cx, responses) == IF cx.cancelled THEN {TransportFail} ELSE responses

----------------------------------------------------------------------------
(* Write operations that return only an error *)

\* the shared shape of CreateDomain, DeleteDomain, ApproveDelegation,
\* DelegateDomain and AddAcmeAccountDomains: build the request, sendRequest
\* with the operation's expected status, return its error
WriteCall(name, a, req, expected, env) ==
    IF client.BaseURL = "malformed"
    THEN Finish(name, a, <<>>, [res |-> NilRes, err |-> Err(MsgCreating, 0)], NoLast)
    ELSE LET out == sendRequest(client, req, expected, env)
         IN  Finish(name, a, <<out.sent>>, [res |-> NilRes, err |-> out.err],
                    LastOf(expected, out))

CreateDomain ==
    /\ pc = "idle"
    /\ \E env \in PlainResponses :
         WriteCall("CreateDomain", NoArg,
                   NewRequest("POST", "/api/domain/v1", 0, NoQuery, "json"),
                   StatusCreated, env)

DeleteDomain ==
    /\ pc = "idle"
    /\ \E id \in Ids, env \in PlainResponses :
         WriteCall("DeleteDomain", [id |-> id],
                   NewRequest("DELETE", "/api/domain/v1/%d", id, NoQuery, "nil"),
                   StatusNoContent, env)

ApproveDelegation ==
    /\ pc = "idle"
    /\ \E id \in Ids, env \in PlainResponses :
         WriteCall("ApproveDelegation", [id |-> id],
                   NewRequest("POST", "/api/domain/v1/%d/delegation/approve", id,
                              NoQuery, "json"),
                   StatusOK, env)

DelegateDomain ==
    /\ pc = "idle"
    /\ \E env \in PlainResponses :
         WriteCall("DelegateDomain", NoArg,
                   NewRequest("POST", "/api/domain/v1/delegation", 0, NoQuery, "json"),
                   StatusOK, env)

AddAcmeAccountDomains ==
    /\ pc = "idle"
    /\ \E id \in Ids, env \in PlainResponses :
         WriteCall("AddAcmeAccountDomains", [id |-> id],
                   NewRequest("POST", "/api/acme/v2/account/%d/domain", id,
                              NoQuery, "json"),
                   StatusOK, env)

\* the reason check of RevokeSSLById: reason == "" || len(reason) > 512
ReasonRejectedMutOffByOne(reasonLen) == reasonLen = 0 \/ reasonLen >= MaxReasonLen

ReasonRejected(reasonLen) == reasonLen = 0 \/ reasonLen > MaxReasonLen

\* RevokeSSLById(ctx, sslId, reason): reason is kept as len(reason)
RevokeSSLById ==
    /\ pc = "idle"
    /\ \E id \in Ids, reasonLen \in {0, 1, 2, MaxReasonLen - 1, MaxReasonLen,
                                    MaxReasonLen + 1},
          env \in PlainResponses :
         LET a == [id |-> id, reasonLen |-> reasonLen]
             req == NewRequest("POST", "/api/ssl/v1/revoke/%d", id, NoQuery, "json")
         IN  IF ReasonRejected(reasonLen)
             THEN Finish("RevokeSSLById", a, <<>>,
                         [res |-> NilRes, err |-> Err(MsgReason, 0)], NoLast)
             ELSE WriteCall("RevokeSSLById", a,
                            [req EXCEPT !.hdr.ContentType = CTypePlain],
                            StatusNoContent, env)

----------------------------------------------------------------------------
(* UpdateSSLDetails and its validator *)

\* limits of validateUpdateSSLDetailsRequest
MaxCSRLen == 32767
MaxCommentsLen == 1024
MaxCustomFieldLen == 256

\* an UpdateSSLDetailsRequest: a string is kept as its length (CSR also as
\* whether all of it matches [a-zA-Z0-9-+=/\s]), AutoRenewDetails as a pointer
\* (present) and its two fields
BaseRequest ==
    [SSLId |-> 1, Term |-> 0, CertTypeId |-> 0, OrgId |-> 0,
     CSR |-> [len |-> 0, charsOK |-> TRUE], Comments |-> 0,
     CustomFields |-> <<>>,
     AutoRenewDetails |-> [present |-> FALSE, State |-> "", DaysBeforeExpiration |-> 0],
     RequesterAdminId |-> 0, ApproverAdminId |-> 0]

ARD(state, days) == [present |-> TRUE, State |-> state, DaysBeforeExpiration |-> days]
CF(nameLen, valueLen) == [nameLen |-> nameLen, valueLen |-> valueLen]

\* the values one field of a request is given
FieldValues ==
    ({"SSLId"} \X {-1, 0, 2})
    \cup ({"Term", "CertTypeId", "OrgId", "RequesterAdminId"} \X {-1, 1})
    \cup ({"ApproverAdminId"} \X {-2, -1, 1})
    \cup ({"CSR"} \X {[len |-> 10, charsOK |-> TRUE], [len |-> 10, charsOK |-> FALSE],
                      [len |-> MaxCSRLen, charsOK |-> TRUE],
                      [len |-> MaxCSRLen + 1, charsOK |-> TRUE]})
    \cup ({"Comments"} \X {MaxCommentsLen, MaxCommentsLen + 1})
    \cup ({"CustomFields"} \X
            {<<CF(1, 0)>>, <<CF(0, 0)>>, <<CF(MaxCustomFieldLen, MaxCustomFieldLen)>>,
             <<CF(MaxCustomFieldLen + 1, 0)>>, <<CF(1, MaxCustomFieldLen + 1)>>,
             <<CF(1, 1), CF(0, 1)>>})
    \cup ({"AutoRenewDetails"} \X
            {ARD("", 0), ARD("Scheduled", 1), ARD("Not scheduled", 0),
             ARD("scheduled", 0), ARD("", -1)})

\* the requests UpdateSSLDetails is called with: BaseRequest with up to
\* MaxChanged fields given another value
MaxChanged == 2

RECURSIVE Changed(_, _)
Changed(reqs, k) ==
    IF k = 0 THEN reqs
    ELSE Changed(reqs \cup {[r EXCEPT ![fv[1]] = fv[2]] : r \in reqs, fv \in FieldValues},
                 k - 1)

\* the requests of TestValidateUpdateSSLDetailsRequest that set every id:
\* the valid one, and the valid one with one of the ids at 0
TestedRequest ==
    [BaseRequest EXCEPT !.SSLId = 1740, !.OrgId = 1, !.Term = 1, !.CertTypeId = 1,
                        !.RequesterAdminId = 1, !.ApproverAdminId = -1]

OptionalIds == {"Term", "CertTypeId", "OrgId", "RequesterAdminId"}

TestedRequests == {TestedRequest} \cup {[TestedRequest EXCEPT ![f] = 0] : f \in OptionalIds}

UpdateRequests == Changed({BaseRequest}, MaxChanged) \cup TestedRequests

\* the first custom field, in order, that breaks a rule (0: none)
FirstBadFieldMutNoValueLimit(fields) ==
    LET bad == {i \in 1..Len(fields) :
                  \/ fields[i].nameLen = 0
                  \/ fields[i].nameLen > MaxCustomFieldLen}
    IN  IF bad = {} THEN 0 ELSE CHOOSE i \in bad : \A j \in bad : i <= j

FirstBadField(fields) ==
    LET bad == {i \in 1..Len(fields) :
                  \/ fields[i].nameLen = 0
                  \/ fields[i].nameLen > MaxCustomFieldLen
                  \/ fields[i].valueLen > MaxCustomFieldLen}
    IN  IF bad = {} THEN 0 ELSE CHOOSE i \in bad : \A j \in bad : i <= j

\* validateUpdateSSLDetailsRequest(request)
validateUpdateSSLDetailsRequestMutAdminIdsEarly(request) ==
    LET bad == FirstBadField(request.CustomFields)
        auto == request.AutoRenewDetails
    IN
    IF request.SSLId < 1 THEN Err("sslId must be at least 1", 0)
    ELSE IF request.Term # 0 /\ request.Term < 1 THEN Err("term must be at least 1", 0)
    ELSE IF request.CertTypeId # 0 /\ request.CertTypeId < 1
         THEN Err("certTypeId must be at least 1", 0)
    ELSE IF request.OrgId # 0 /\ request.OrgId < 1 THEN Err("orgId must be at least 1", 0)
    ELSE IF request.RequesterAdminId # 0 /\ request.RequesterAdminId < 1
         THEN Err("requesterAdminId must be at least 1", 0)
    ELSE IF request.ApproverAdminId # 0 /\ request.ApproverAdminId < -1
         THEN Err("approverAdminId must be at least -1", 0)
    ELSE IF request.CSR.len # 0 /\ ~request.CSR.charsOK
         THEN Err("csr must match the regular expression [a-zA-Z0-9-+=\\/\\s]+", 0)
    ELSE IF request.CSR.len # 0 /\ request.CSR.len > MaxCSRLen
         THEN Err("csr size must be between 1 and 32767 inclusive", 0)
    ELSE IF request.Comments > MaxCommentsLen
         THEN Err("comments maximum length is 1024 characters or can be empty", 0)
    ELSE IF bad # 0 /\ request.CustomFields[bad].nameLen = 0
         THEN Err("custom field name must not be null", 0)
    ELSE IF bad # 0 /\ request.CustomFields[bad].nameLen > MaxCustomFieldLen
         THEN Err("custom field name size must be between 1 and 256 inclusive", 0)
    ELSE IF bad # 0
         THEN Err("custom field value maximum length is 256 characters or can be empty", 0)
    ELSE IF auto.present /\ auto.State # ""
            /\ auto.State # "Not scheduled" /\ auto.State # "Scheduled"
         THEN Err("autoRenewDetails.state allowed values are 'Not scheduled' and 'Scheduled'", 0)
    ELSE IF auto.present /\ auto.DaysBeforeExpiration # 0 /\ auto.DaysBeforeExpiration < 1
         THEN Err("autoRenewDetails.daysBeforeExpiration must be at least 1", 0)
    ELSE NilErr

validateUpdateSSLDetailsRequest(request) ==
    LET bad == FirstBadField(request.CustomFields)
        auto == request.AutoRenewDetails
    IN
    IF request.SSLId < 1 THEN Err("sslId must be at least 1", 0)
    ELSE IF request.Term # 0 /\ request.Term < 1 THEN Err("term must be at least 1", 0)
    ELSE IF request.CertTypeId # 0 /\ request.CertTypeId < 1
         THEN Err("certTypeId must be at least 1", 0)
    ELSE IF request.OrgId # 0 /\ request.OrgId < 1 THEN Err("orgId must be at least 1", 0)
    ELSE IF request.CSR.len # 0 /\ ~request.CSR.charsOK
         THEN Err("csr must match the regular expression [a-zA-Z0-9-+=\\/\\s]+", 0)
    ELSE IF request.CSR.len # 0 /\ request.CSR.len > MaxCSRLen
         THEN Err("csr size must be between 1 and 32767 inclusive", 0)
    ELSE IF request.Comments > MaxCommentsLen
         THEN Err("comments maximum length is 1024 characters or can be empty", 0)
    ELSE IF bad # 0 /\ request.CustomFields[bad].nameLen = 0
         THEN Err("custom field name must not be null", 0)
    ELSE IF bad # 0 /\ request.CustomFields[bad].nameLen > MaxCustomFieldLen
         THEN Err("custom field name size must be between 1 and 256 inclusive", 0)
    ELSE IF bad # 0
         THEN Err("custom field value maximum length is 256 characters or can be empty", 0)
    ELSE IF auto.present /\ auto.State # ""
            /\ auto.State # "Not scheduled" /\ auto.State # "Scheduled"
         THEN Err("autoRenewDetails.state allowed values are 'Not scheduled' and 'Scheduled'", 0)
    ELSE IF auto.present /\ auto.DaysBeforeExpiration # 0 /\ auto.DaysBeforeExpiration < 1
         THEN Err("autoRenewDetails.daysBeforeExpiration must be at least 1", 0)
    ELSE IF request.RequesterAdminId # 0 /\ request.RequesterAdminId < 1
         THEN Err("requesterAdminId must be at least 1", 0)
    ELSE IF request.ApproverAdminId # 0 /\ request.ApproverAdminId < -1
         THEN Err("approverAdminId must be at least -1", 0)
    ELSE NilErr

\* UpdateSSLDetails after its validation: lines 443-471
UpdateSend(c, env) ==
    LET req == NewRequest("PUT", "/api/ssl/v1", 0, NoQuery, "json")
        out == sendRequest(c, [req EXCEPT !.hdr.ContentType = CTypeUpper,
                                          !.hdr.Accept = CTypePlain],
                           StatusOK, env)
    IN  IF c.BaseURL = "malformed"
        THEN [sent |-> <<>>, ret |-> [res |-> NilRes, err |-> Err(MsgParsingURL, 0)],
              last |-> NoLast]
        ELSE IF out.err # NilErr
        THEN [sent |-> <<out.sent>>, ret |-> [res |-> NilRes, err |-> out.err],
              last |-> LastOf(StatusOK, out)]
        ELSE IF UnmarshalFails(out.body, "struct")
        THEN [sent |-> <<out.sent>>, ret |-> [res |-> NilRes, err |-> Err(MsgUnmarshal, 0)],
              last |-> LastOf(StatusOK, out)]
        ELSE [sent |-> <<out.sent>>,
              ret |-> [res |-> StructRes("SSLDetails"), err |-> NilErr],
              last |-> LastOf(StatusOK, out)]

\* the body of UpdateSSLDetails, verr being what the validator returned
UpdateCallMutSendFirst(c, verr, env) ==
    IF verr # NilErr
    THEN [UpdateSend(c, env) EXCEPT !.ret = [res |-> NilRes, err |-> verr]]
    ELSE UpdateSend(c, env)

UpdateCall(c, verr, env) ==
    IF verr # NilErr
    THEN [sent |-> <<>>, ret |-> [res |-> NilRes, err |-> verr], last |-> NoLast]
    ELSE UpdateSend(c, env)

\* UpdateSSLDetails(ctx, request)
UpdateSSLDetails ==
    /\ pc = "idle"
    /\ \E request \in UpdateRequests, env \in StructResponses :
         LET u == UpdateCall(client, validateUpdateSSLDetailsRequest(request), env)
         IN  Finish("UpdateSSLDetails", [id |-> request.SSLId, request |-> request],
                    u.sent, u.ret, u.last)

----------------------------------------------------------------------------
(* The JSON encoding of AutoRenewDetails *)

\* an encoded JSON value: the literal null, or an object with the keys it
\* carries (has) and their values
JSONNull == [kind |-> "null", has |-> {}, state |-> "", daysBeforeExpiration |-> 0]
JSONObject(has, state, days) ==
    [kind |-> "object", has |-> has, state |-> state, daysBeforeExpiration |-> days]

\* json.Marshal of the Alias struct: both fields are tagged without omitempty
MarshalAlias(a) ==
    JSONObject({"state", "daysBeforeExpiration"}, a.State, a.DaysBeforeExpiration)

\* AutoRenewDetails.MarshalJSON
MarshalJSONMutEitherZero(a) ==
    IF a.State = "" \/ a.DaysBeforeExpiration = 0
    THEN JSONNull
    ELSE MarshalAlias(a)

MarshalJSON(a) ==
    IF a.State = "" /\ a.DaysBeforeExpiration = 0
    THEN JSONNull
    ELSE MarshalAlias(a)

\* the AutoRenewDetails values that are encoded
AutoRenewValues ==
    [State : {"", "Scheduled", "Not scheduled"}, DaysBeforeExpiration : {-1, 0, 1, 30}]

\* the encoded value handed to the caller of json.Marshal
JSONRes(json) == [kind |-> "json", isNil |-> FALSE, items |-> <<>>, json |-> json]

\* json.Marshal(details) on an AutoRenewDetails value
MarshalAutoRenewDetails ==
    /\ pc = "idle"
    /\ \E a \in AutoRenewValues :
         Finish("MarshalJSON", [id |-> 0, details |-> a], <<>>,
                [res |-> JSONRes(MarshalJSON(a)), err |-> NilErr], NoLast)

----------------------------------------------------------------------------
(* A request sent through the client directly *)

\* headers a caller may have set on its own request before sending it
CallerHeaders ==
    {NoHeaders,
     [NoHeaders EXCEPT !.ContentType = "text/plain"],
     [login |-> "caller", customerUri |-> "caller", password |-> "caller",
      ContentType |-> "text/plain", Accept |-> Absent]}

\* responses to such a request: also bodies of 0 bytes and of about
\* MaxErrorBody bytes, with a status that matches or not
DirectResponses ==
    PlainResponses \cup
    {Response(s, TextBody(n), FALSE, NoTotal) :
        s \in {StatusOK, 400},
        n \in {0, MaxErrorBody - 1, MaxErrorBody, MaxErrorBody + 1, 600}}

\* c.sendRequest(ctx, req, expectedStatus) on a request the caller built, with
\* 0 for any 2xx
SendRequest ==
    /\ pc = "idle"
    /\ \E method \in {"GET", "PUT"}, hdr \in CallerHeaders,
          expected \in {0, StatusOK, StatusCreated}, env \in DirectResponses :
         LET req == [NewRequest(method, "/test", 0, NoQuery, "nil") EXCEPT !.hdr = hdr]
             out == sendRequest(client, req, expected, env)
         IN  Finish("sendRequest", [id |-> 0, hdr |-> hdr], <<out.sent>>,
                    [res |-> NilRes, err |-> out.err], LastOf(expected, out))

----------------------------------------------------------------------------
(* CheckDomainValidationStatus *)

\* status values the status endpoint may report
PollStatuses == {"NOT_VALIDATED", "VALIDATED", "", "FAILED", "not_validated"}

\* responses to one poll of /api/dcv/v2/validation/status
PollResponses ==
    {TransportFail}
    \cup {Response(StatusOK, ObjectBody(s), re, NoTotal) : s \in PollStatuses, re \in BOOLEAN}
    \cup {Response(c, ObjectBody(s), FALSE, NoTotal) :
            c \in {StatusCreated, 404}, s \in {"NOT_VALIDATED", "VALIDATED"}}
    \cup {Response(StatusOK, b, FALSE, NoTotal) : b \in {InvalidBody, ArrayBody(<<>>)}}

\* GetDomainValidationStatus(ctx, request): the requests sent, the decoded
\* Status and the error
GetDomainValidationStatus(c, env) ==
    LET req == NewRequest("POST", "/api/dcv/v2/validation/status", 0, NoQuery, "json")
        out == sendRequest(c, req, StatusOK, env)
    IN  IF c.BaseURL = "malformed"
        THEN [sent |-> <<>>, status |-> "", err |-> Err(MsgCreating, 0), last |-> NoLast]
        ELSE IF out.err # NilErr
        THEN [sent |-> <<out.sent>>, status |-> "", err |-> out.err,
              last |-> LastOf(StatusOK, out)]
        ELSE IF UnmarshalFails(out.body, "struct")
        THEN [sent |-> <<out.sent>>, status |-> "", err |-> Err(MsgUnmarshal, 0),
              last |-> LastOf(StatusOK, out)]
        ELSE [sent |-> <<out.sent>>, status |-> out.body.status, err |-> NilErr,
              last |-> LastOf(StatusOK, out)]

\* the test of the loop: attempt < maxRetries
MoreAttemptsMutInclusive(a, maxRetries) == a <= maxRetries

MoreAttempts(a, maxRetries) == a < maxRetries

\* the test that makes the loop sleep and poll again
StillPendingMutAnyCase(status) == status \in {"NOT_VALIDATED", "not_validated"}

StillPendingMutEmpty(status) == status \in {"NOT_VALIDATED", ""}

StillPending(status) == status = "NOT_VALIDATED"

\* what the body of the loop does with the result of a poll
PollResultMutRetryOnError(err, status) ==
    IF err # NilErr \/ StillPending(status) THEN "sleep" ELSE "return nil"

PollResult(err, status) ==
    IF err # NilErr THEN "return err"
    ELSE IF StillPending(status) THEN "sleep"
    ELSE "return nil"

\* the call, up to the first test of the loop
StartCheckDomainValidationStatus ==
    /\ pc = "idle"
    /\ \E maxRetries \in -1..MaxRetries :
         /\ op' = "CheckDomainValidationStatus"
         /\ arg' = [id |-> 0, maxRetries |-> maxRetries]
         /\ attempt' = 0
         /\ IF MoreAttempts(0, maxRetries)
            THEN pc' = "poll" /\ ret' = NoRet
            ELSE pc' = "done" /\ ret' = [res |-> NilRes, err |-> Err(MsgMaxRetries, 0)]
    /\ UNCHANGED <<client, wire, last, sleeps, outcomes, listVars, ctx>>

\* the body of the loop up to its return or its call of time.Sleep
Poll ==
    /\ pc = "poll"
    /\ \E env \in Answers(ctx, PollResponses) :
         LET g == GetDomainValidationStatus(client, env)
         IN  /\ wire' = wire \o g.sent
             /\ last' = g.last
             /\ outcomes' = Append(outcomes, [status |-> g.status, err |-> g.err])
             /\ CASE PollResult(g.err, g.status) = "return err" ->
                       pc' = "done" /\ ret' = [res |-> NilRes, err |-> g.err]
                                    /\ sleeps' = sleeps
                  [] PollResult(g.err, g.status) = "sleep" ->
                       pc' = "sleep" /\ ret' = ret /\ sleeps' = sleeps + 1
                  [] PollResult(g.err, g.status) = "return nil" ->
                       pc' = "done" /\ ret' = [res |-> NilRes, err |-> NilErr]
                                    /\ sleeps' = sleeps
    /\ UNCHANGED <<client, op, arg, attempt, listVars, ctx>>

\* time.Sleep returns; continue: attempt++ and the test of the loop
Sleep ==
    /\ pc = "sleep"
    /\ attempt' = attempt + 1
    /\ IF MoreAttempts(attempt + 1, arg.maxRetries)
       THEN pc' = "poll" /\ ret' = ret
       ELSE pc' = "done" /\ ret' = [res |-> NilRes, err |-> Err(MsgMaxRetries, 0)]
    /\ UNCHANGED <<client, op, arg, wire, last, sleeps, outcomes, listVars, ctx>>

\* GetDomainValidationStatus(ctx, request) called by the user of the client
GetDomainValidationStatusCall ==
    /\ pc = "idle"
    /\ \E env \in PollResponses \cup {Response(StatusOK, NullBody, FALSE, NoTotal)} :
         LET g == GetDomainValidationStatus(client, env)
         IN  Finish("GetDomainValidationStatus", NoArg, g.sent,
                    [res |-> IF g.err # NilErr THEN NilRes
                             ELSE StructRes("GetDomainValidationStatusResponse"),
                     err |-> g.err],
                    g.last)

----------------------------------------------------------------------------
(* Read operations that return one decoded result *)

\* what a read operation returns once sendRequest has returned out: its error,
\* or the body decoded into a target of the kind "struct" or "slice"
DecodeMutKeepResult(name, target, out) ==
    IF out.err # NilErr THEN [res |-> NilRes, err |-> out.err]
    ELSE IF UnmarshalFails(out.body, target)
    THEN [res |-> StructRes(name), err |-> Err(MsgUnmarshal, 0)]
    ELSE [res |-> StructRes(name), err |-> NilErr]

Decode(name, target, out) ==
    IF out.err # NilErr THEN [res |-> NilRes, err |-> out.err]
    ELSE IF UnmarshalFails(out.body, target)
    THEN [res |-> NilRes, err |-> Err(MsgUnmarshal, 0)]
    ELSE [res |-> StructRes(name), err |-> NilErr]

\* responses to a request whose body is decoded
ReadResponses ==
    StructResponses \cup {Response(StatusOK, NullBody, FALSE, NoTotal)}

\* the shared shape of GetDomainDetails, GetSSLDetails, ListOrganization,
\* StartDomainCNameValidation and SubmitDomainCNameValidation: build the
\* request (urlErr when that fails), sendRequest with 200, decode the body
ReadCall(name, a, req, target, urlErr, env) ==
    IF client.BaseURL = "malformed"
    THEN Finish(name, a, <<>>, [res |-> NilRes, err |-> Err(urlErr, 0)], NoLast)
    ELSE LET out == sendRequest(client, req, StatusOK, env)
         IN  Finish(name, a, <<out.sent>>, Decode(name, target, out),
                    LastOf(StatusOK, out))

GetDomainDetails ==
    /\ pc = "idle"
    /\ \E id \in Ids, env \in ReadResponses :
         ReadCall("GetDomainDetails", [id |-> id],
                  NewRequest("GET", "/api/domain/v1/%d", id, NoQuery, "nil"),
                  "struct", MsgCreating, env)

GetSSLDetails ==
    /\ pc = "idle"
    /\ \E id \in Ids, env \in ReadResponses :
         LET req == NewRequest("GET", "/api/ssl/v1/%d", id, NoQuery, "nil")
         IN  ReadCall("GetSSLDetails", [id |-> id],
                      [req EXCEPT !.hdr.ContentType = CTypeUpper],
                      "struct", MsgParsingURL, env)

ListOrganization ==
    /\ pc = "idle"
    /\ \E env \in ReadResponses \cup
                  {Response(StatusOK, ArrayBody(<<1, 2>>), FALSE, NoTotal)} :
         ReadCall("ListOrganization", NoArg,
                  NewRequest("GET", "/api/organization/v1", 0, NoQuery, "nil"),
                  "slice", MsgCreating, env)

StartDomainCNameValidation ==
    /\ pc = "idle"
    /\ \E env \in ReadResponses :
         ReadCall("StartDomainCNameValidation", NoArg,
                  NewRequest("POST", "/api/dcv/v1/validation/start/domain/cname", 0,
                             NoQuery, "json"),
                  "struct", MsgCreating, env)

SubmitDomainCNameValidation ==
    /\ pc = "idle"
    /\ \E env \in ReadResponses :
         ReadCall("SubmitDomainCNameValidation", NoArg,
                  NewRequest("POST", "/api/dcv/v1/validation/submit/domain/cname", 0,
                             NoQuery, "json"),
                  "struct", MsgCreating, env)

----------------------------------------------------------------------------
(* The List operations and the ListAll loops *)

Resources == {"Domain", "DomainValidation", "AcmeAccount", "AcmeAccountDomain", "SSL"}

ListPath(r) ==
    CASE r = "Domain" -> "/api/domain/v1"
      [] r = "DomainValidation" -> "/api/dcv/v1/validation"
      [] r = "AcmeAccount" -> "/api/acme/v2/account"
      [] r = "AcmeAccountDomain" -> "/api/acme/v2/account/%d/domain"
      [] r = "SSL" -> "/api/ssl/v1"

\* item number i of the server's list is i; the n items from position on
PageItems(pos, n) == [i \in 1..n |-> pos + i]

\* values of the X-Total-Count header
TotalInts == {k * PageSize + d : k \in 0..MaxPages, d \in {-1, 0, 1}}
Totals == {NoTotal, EmptyTotal, BadTotal} \cup {IntTotal(n) : n \in TotalInts}

\* number of items a page may carry
PageLens == {0, PageSize - 1, PageSize, PageSize + 1}

\* responses to one page request at position pos
PageResponses(pos) ==
    {TransportFail}
    \cup {Response(StatusOK, ArrayBody(PageItems(pos, n)), FALSE, t) :
            n \in PageLens, t \in Totals}
    \cup {Response(StatusOK, ArrayBody(PageItems(pos, PageSize)), TRUE, IntTotal(PageSize)),
          Response(404, ArrayBody(PageItems(pos, PageSize)), FALSE, IntTotal(PageSize)),
          Response(StatusOK, InvalidBody, FALSE, IntTotal(PageSize)),
          Response(StatusOK, ObjectBody(""), FALSE, IntTotal(PageSize))}

\* the fields of the parameter structs that are of type int
IntFields ==
    {"Size", "Position", "OrgId", "Org", "Department", "ExpiresIn", "OrganizationId",
     "ExpiresWithinNextDays", "StickyExpiresWithinNextDays", "SSLTypeId", "KeySize"}

\* one queryParams.Add of a List operation: the field of the parameter
\* struct, the key of the query and the condition the Add stands under:
\* "always" (none), "nonempty" (!= ""), "positive" (> 0) or "nonzero" (!= 0)
F(field, key, rule) == [field |-> field, key |-> key, rule |-> rule]

\* the queryParams.Add calls of each List operation, in the order of the code
Filters(r) ==
    CASE r = "Domain" ->
           <<F("Size", "size", "always"), F("Position", "position", "always"),
             F("Name", "name", "nonempty"), F("State", "state", "nonempty"),
             F("Status", "status", "nonempty"), F("OrgId", "orgId", "positive")>>
      [] r = "DomainValidation" ->
           <<F("Size", "size", "always"), F("Position", "position", "always"),
             F("Domain", "domain", "nonempty"), F("Org", "org", "positive"),
             F("Department", "department", "positive"),
             F("DcvStatus", "dcvStatus", "nonempty"),
             F("OrderStatus", "orderStatus", "nonempty"),
             F("ExpiresIn", "expiresIn", "positive")>>
      [] r = "AcmeAccount" ->
           <<F("Size", "size", "always"), F("Position", "position", "always"),
             F("OrganizationId", "organizationId", "always"),
             F("Name", "name", "nonempty"), F("AcmeServer", "acmeServer", "nonempty"),
             F("CertValidationType", "certValidationType", "nonempty"),
             F("Status", "status", "nonempty")>>
      [] r = "AcmeAccountDomain" ->
           <<F("Size", "size", "always"), F("Position", "position", "always"),
             F("Name", "name", "nonempty"),
             F("ExpiresWithinNextDays", "expiresWithinNextDays", "positive"),
             F("StickyExpiresWithinNextDays", "stickyExpiresWithinNextDays", "nonzero")>>
      [] r = "SSL" ->
           <<F("Size", "size", "always"), F("Position", "position", "always"),
             F("CommonName", "commonName", "nonempty"),
             F("SubjectAlternativeName", "subjectAlternativeName", "nonempty"),
             F("Status", "status", "nonempty"), F("SSLTypeId", "sslTypeId", "positive"),
             F("DiscoveryStatus", "discoveryStatus", "nonempty"),
             F("Vendor", "vendor", "nonempty"), F("OrgId", "orgId", "positive"),
             F("InstallStatus", "installStatus", "nonempty"),
             F("RenewalStatus", "renewalStatus", "nonempty"),
             F("Issuer", "issuer", "nonempty"),
             F("SerialNumber", "serialNumber", "nonempty"),
             F("Requester", "requester", "nonempty"),
             F("ExternalRequester", "externalRequester", "nonempty"),
             F("SignatureAlgorithm", "signatureAlgorithm", "nonempty"),
             F("KeyAlgorithm", "keyAlgorithm", "nonempty"),
             F("KeySize", "keySize", "positive"), F("KeyParam", "keyParam", "nonempty"),
             F("Sha1Hash", "sha1Hash", "nonempty"), F("Md5Hash", "md5Hash", "nonempty"),
             F("KeyUsage", "keyUsage", "nonempty"),
             F("ExtendedKeyUsage", "extendedKeyUsage", "nonempty"),
             F("RequestedVia", "requestedVia", "nonempty")>>

\* the condition of one queryParams.Add, on the value v of the field
AttachedMutAlways(rule, v) == TRUE

AttachedMutPositiveOnly(rule, v) ==
    CASE rule = "always" -> TRUE
      [] rule = "nonempty" -> v # ""
      [] rule = "positive" -> v > 0
      [] rule = "nonzero" -> v > 0

Attached(rule, v) ==
    CASE rule = "always" -> TRUE
      [] rule = "nonempty" -> v # ""
      [] rule = "positive" -> v > 0
      [] rule = "nonzero" -> v # 0

\* the value added: a string as it is, an int through fmt.Sprintf("%d", v)
FormatValue(field, v) == IF field \in IntFields THEN ToString(v) ELSE v

\* queryParams of a List operation called with params
Query(r, params) ==
    LET kept == SelectSeq(Filters(r), LAMBDA f : Attached(f.rule, params[f.field]))
    IN  [i \in 1..Len(kept) |->
            [key |-> kept[i].key,
             value |-> FormatValue(kept[i].field, params[kept[i].field])]]

\* the parameter structs: every field at its zero value, every field set,
\* and the zero value with one field set
Fields(r) == {Filters(r)[i].field : i \in 1..Len(Filters(r))}
ZeroParams(r) == [f \in Fields(r) |-> IF f \in IntFields THEN 0 ELSE ""]
SetParams(r, n, str) == [f \in Fields(r) |-> IF f \in IntFields THEN n ELSE str]
ListParams(r) ==
    {ZeroParams(r), SetParams(r, 5, "x"), SetParams(r, -1, "x")}
    \cup {[ZeroParams(r) EXCEPT ![f] = n] : f \in Fields(r) \cap IntFields, n \in {-1, 5}}
    \cup {[ZeroParams(r) EXCEPT ![f] = "x"] : f \in Fields(r) \ IntFields}

\* resp.Header.Get("X-Total-Count") and strconv.Atoi with its error dropped
TotalCountOfMutUnknown(total) ==
    IF total.kind = "int" THEN total.n ELSE PageSize * (MaxPages + 1)

TotalCountOfMutZeroOnRangeError(total) == IF total.kind = "int" THEN total.n ELSE 0

\* Atoi returns the value of a numeral in range, the nearest int with a range
\* error for one out of range, and 0 with a syntax error for anything else
TotalCountOf(total) ==
    CASE total.kind = "int" -> total.n
      [] total.kind = "overflow" -> IF total.n > 0 THEN MaxInt ELSE -MaxInt - 1
      [] OTHER -> 0

\* ListDomain, ListDomainValidation, ListAcmeAccount, ListAcmeAccountDomain and
\* ListSSL: one page
List(c, r, id, params, env) ==
    LET req == NewRequest("GET", ListPath(r), id, Query(r, params), "nil")
        out == sendRequest(c, req, StatusOK, env)
    IN  IF c.BaseURL = "malformed"
        THEN [sent |-> <<>>, items |-> <<>>, TotalCount |-> 0,
              err |-> Err(MsgParsingURL, 0), last |-> NoLast]
        ELSE IF out.err # NilErr
        THEN [sent |-> <<out.sent>>, items |-> <<>>, TotalCount |-> 0,
              err |-> out.err, last |-> LastOf(StatusOK, out)]
        ELSE IF UnmarshalFails(out.body, "slice")
        THEN [sent |-> <<out.sent>>, items |-> <<>>, TotalCount |-> 0,
              err |-> Err(MsgUnmarshal, 0), last |-> LastOf(StatusOK, out)]
        ELSE [sent |-> <<out.sent>>, items |-> out.body.items,
              TotalCount |-> TotalCountOf(out.resp.total),
              err |-> NilErr, last |-> LastOf(StatusOK, out)]

\* the *ListXResponse a List operation returns
ListRes(items, total) ==
    [kind |-> "list", isNil |-> FALSE, items |-> items, TotalCount |-> total]

ListName(r) ==
    CASE r = "Domain" -> "ListDomain"
      [] r = "DomainValidation" -> "ListDomainValidation"
      [] r = "AcmeAccount" -> "ListAcmeAccount"
      [] r = "AcmeAccountDomain" -> "ListAcmeAccountDomain"
      [] r = "SSL" -> "ListSSL"

ListOps == {ListName(r) : r \in Resources}

\* responses to the request of a List operation called on its own
ListResponses ==
    {TransportFail}
    \cup {Response(StatusOK, ArrayBody(PageItems(0, n)), FALSE, t) :
            n \in {0, 2}, t \in Totals \cup {HugeTotal(1), HugeTotal(-1)}}
    \cup {Response(StatusOK, ArrayBody(PageItems(0, 2)), TRUE, IntTotal(2)),
          Response(404, ArrayBody(PageItems(0, 2)), FALSE, IntTotal(2)),
          Response(StatusOK, InvalidBody, FALSE, IntTotal(2)),
          Response(StatusOK, ObjectBody(""), FALSE, IntTotal(2)),
          Response(StatusOK, NullBody, FALSE, IntTotal(2))}

\* a List operation called by the user of the client
ListCall(r) ==
    /\ pc = "idle"
    /\ \E id \in (IF r = "AcmeAccountDomain" THEN Ids ELSE {0}),
          params \in ListParams(r), env \in ListResponses :
         LET l == List(client, r, id, params, env)
         IN  Finish(ListName(r), [id |-> id, params |-> params], l.sent,
                    [res |-> IF l.err # NilErr THEN NilRes
                             ELSE ListRes(l.items, l.TotalCount),
                     err |-> l.err],
                    l.last)

ListDomain == ListCall("Domain")
ListDomainValidation == ListCall("DomainValidation")
ListAcmeAccount == ListCall("AcmeAccount")
ListAcmeAccountDomain == ListCall("AcmeAccountDomain")
ListSSL == ListCall("SSL")

\* the test that ends a ListAll loop after a page of n items
LastPageMutFullPage(n, pos, size, total) == n <= size \/ pos + size >= total

LastPageMutPosition(n, pos, size, total) == n < size \/ pos >= total

LastPageMutTotalOnly(n, pos, size, total) == pos + size >= total

LastPage(n, pos, size, total) == n < size \/ pos + size >= total

\* params.Position = position; params.Size = size: the copy of the caller's
\* parameters a turn of the loop hands to the List operation
PageParamsMutKeepSize(params, pos, size) == [params EXCEPT !.Position = pos]

PageParams(params, pos, size) == [params EXCEPT !.Position = pos, !.Size = size]

\* if err != nil { return nil, err }
PageFailedMutIgnoreError(err) == FALSE

PageFailed(err) == err # NilErr

\* position += params.Size
NextPositionMutStay(pos, size) == pos

NextPosition(pos, size) == pos + size

\* the parameters a ListAll operation is called with: a Size and a Position
\* of the caller's, some fields left at their zero value and the others set
LeftUnset ==
    {"State", "Department", "OrganizationId", "ExpiresWithinNextDays", "SSLTypeId",
     "Vendor"}

ListAllParams(r) ==
    {[f \in Fields(r) |->
        CASE f = "Size" -> 10
          [] f = "Position" -> 7
          [] f \in LeftUnset -> ZeroParams(r)[f]
          [] OTHER -> SetParams(r, 5, "x")[f]]}

ListAllName(r) ==
    CASE r = "Domain" -> "ListAllDomain"
      [] r = "DomainValidation" -> "ListAllDomainValidation"
      [] r = "AcmeAccount" -> "ListAllAcmeAccount"
      [] r = "AcmeAccountDomain" -> "ListAllAcmeAccountDomain"
      [] r = "SSL" -> "ListAllSSL"

ListAllOps == {ListAllName(r) : r \in Resources}

\* the resource a ListAll operation lists
ListedBy(o) == CHOOSE r \in Resources : ListAllName(r) = o

\* the call of a ListAll operation, up to its loop
StartListAll(r) ==
    /\ pc = "idle"
    /\ pc' = "list"
    /\ op' = ListAllName(r)
    /\ \E id \in (IF r = "AcmeAccountDomain" THEN Ids ELSE {0}),
          params \in ListAllParams(r) : arg' = [id |-> id, params |-> params]
    /\ position' = 0
    /\ allItems' = <<>>
    /\ UNCHANGED <<client, wire, ret, last, checkVars, srvN, honest, maxTotal, bare,
                   pages, ctx>>

\* the page a server holding n items reports at position pos
HonestPage(n, pos) ==
    Response(StatusOK, ArrayBody(PageItems(pos, Max(0, Min(PageSize, n - pos)))),
             FALSE, IntTotal(n))

\* a full page without the X-Total-Count header
BarePage(pos) == Response(StatusOK, ArrayBody(PageItems(pos, PageSize)), FALSE, NoTotal)

\* one turn of the loop of a ListAll operation
ListAllStep(r) ==
    /\ pc = "list"
    /\ op = ListAllName(r)
    /\ \E env \in Answers(ctx, PageResponses(position)) :
         LET l == List(client, r, arg.id, PageParams(arg.params, position, PageSize), env)
             all == allItems \o l.items
             n == IF wire = <<>>
                  THEN (IF env.total.kind = "int" /\ env.total.n >= 0 /\ ~env.terr
                        THEN env.total.n ELSE -1)
                  ELSE srvN
         IN  /\ wire' = wire \o l.sent
             /\ last' = PageLast(l.last)
             /\ srvN' = n
             /\ honest' = (honest /\ n >= 0 /\ l.sent # <<>> /\ env = HonestPage(n, position))
             /\ maxTotal' = Max(maxTotal, l.TotalCount)
             /\ bare' = (bare /\ l.sent # <<>> /\ env = BarePage(position))
             /\ pages' = Append(pages, [n |-> Len(l.items), err |-> l.err])
             /\ IF PageFailed(l.err)
                THEN /\ pc' = "done"
                     /\ ret' = [res |-> NilRes, err |-> l.err]
                     /\ UNCHANGED <<position, allItems>>
                ELSE /\ allItems' = all
                     /\ IF LastPage(Len(l.items), position, PageSize, l.TotalCount)
                        THEN /\ pc' = "done"
                             /\ ret' = [res |-> SliceRes(all), err |-> NilErr]
                             /\ position' = position
                        ELSE /\ pc' = "list"
                             /\ ret' = ret
                             /\ position' = NextPosition(position, PageSize)
    /\ UNCHANGED <<client, op, arg, checkVars, ctx>>

ListAllDomain == StartListAll("Domain") \/ ListAllStep("Domain")
ListAllDomainValidation == StartListAll("DomainValidation") \/ ListAllStep("DomainValidation")
ListAllAcmeAccount == StartListAll("AcmeAccount") \/ ListAllStep("AcmeAccount")
ListAllAcmeAccountDomain == StartListAll("AcmeAccountDomain") \/ ListAllStep("AcmeAccountDomain")
ListAllSSL == StartListAll("SSL") \/ ListAllStep("SSL")

Next ==
    \/ CreateDomain
    \/ DeleteDomain
    \/ ApproveDelegation
    \/ DelegateDomain
    \/ AddAcmeAccountDomains
    \/ RevokeSSLById
    \/ UpdateSSLDetails
    \/ MarshalAutoRenewDetails
    \/ SendRequest
    \/ GetDomainValidationStatusCall
    \/ GetDomainDetails
    \/ GetSSLDetails
    \/ ListOrganization
    \/ StartDomainCNameValidation
    \/ SubmitDomainCNameValidation
    \/ StartCheckDomainValidationStatus
    \/ Poll
    \/ Sleep
    \/ ListDomain
    \/ ListDomainValidation
    \/ ListAcmeAccount
    \/ ListAcmeAccountDomain
    \/ ListSSL
    \/ ListAllDomain
    \/ ListAllDomainValidation
    \/ ListAllAcmeAccount
    \/ ListAllAcmeAccountDomain
    \/ ListAllSSL
    \/ Cancel
    \/ Return

Spec == Init /\ [][Next]_vars

----------------------------------------------------------------------------
(* Calls running concurrently on one Client *)

\* Two goroutines call methods of the same Client.  The locals of a call
\* (position, the accumulated slice, attempt, ...) live in the frame of its
\* goroutine: here each variable of a call is a function of the goroutine.
\* The server answers the k-th request of a call as the script of that call
\* says, whatever the other call does.  The arguments of a call keep its
\* script and the value the Client had when the call began (c).
Goroutines == {1, 2}

\* length of the scripts (a script answers later requests as its last one)
MaxScript == 2

ListAnswers == {"full page", "short page", "no answer"}
PollAnswers == {"pending", "validated", "no answer"}

Scripts(answers) == [1..MaxScript -> answers]

ScriptAt(script, k) == script[Min(k, Len(script))]

\* the response of the wrapped transport for an answer of a script, to a
\* request for the page at pos
Served(answer, pos) ==
    CASE answer = "full page" ->
           Response(StatusOK, ArrayBody(PageItems(pos, PageSize)), FALSE,
                    IntTotal(2 * PageSize + 1))
      [] answer = "short page" ->
           Response(StatusOK, ArrayBody(PageItems(pos, 1)), FALSE, IntTotal(pos + 1))
      [] answer = "pending" ->
           Response(StatusOK, ObjectBody("NOT_VALIDATED"), FALSE, NoTotal)
      [] answer = "validated" ->
           Response(StatusOK, ObjectBody("VALIDATED"), FALSE, NoTotal)
      [] answer = "no answer" -> TransportFail

\* the frame that holds the locals of the call of goroutine g
FrameMutClientField(g) == 1

Frame(g) == g

ConcurrentInit ==
    /\ client \in {NewClient(c) : c \in {k \in Configs : k.URL = "valid"}}
    /\ pc = [g \in Goroutines |-> "idle"]
    /\ op = [g \in Goroutines |-> "none"]
    /\ arg = [g \in Goroutines |-> NoArg]
    /\ wire = [g \in Goroutines |-> <<>>]
    /\ ret = [g \in Goroutines |-> NoRet]
    /\ attempt = [g \in Goroutines |-> 0]
    /\ sleeps = [g \in Goroutines |-> 0]
    /\ outcomes = [g \in Goroutines |-> <<>>]
    /\ position = [g \in Goroutines |-> 0]
    /\ allItems = [g \in Goroutines |-> <<>>]
    /\ pages = [g \in Goroutines |-> <<>>]
    /\ last = NoLast
    /\ srvN = -1
    /\ honest = TRUE
    /\ maxTotal = 0
    /\ bare = TRUE
    /\ ctx = Background

\* goroutine g calls ListAllDomain or ListAllSSL: the call up to its loop
GoListAll(g) ==
    /\ pc[g] = "idle"
    /\ \E r \in {"Domain", "SSL"}, script \in Scripts(ListAnswers) :
         /\ op' = [op EXCEPT ![g] = ListAllName(r)]
         /\ arg' = [arg EXCEPT ![g] = [id |-> 0, params |-> ZeroParams(r),
                                       script |-> script, c |-> client]]
    /\ pc' = [pc EXCEPT ![g] = "list"]
    /\ position' = [position EXCEPT ![Frame(g)] = 0]
    /\ allItems' = [allItems EXCEPT ![g] = <<>>]
    /\ UNCHANGED <<client, wire, ret, last, checkVars, srvN, honest, maxTotal, bare,
                   pages, ctx>>

\* one turn of the loop of the ListAll operation of goroutine g
GoListAllStep(g) ==
    /\ pc[g] = "list"
    /\ LET pos == position[Frame(g)]
           env == Served(ScriptAt(arg[g].script, Len(pages[g]) + 1), pos)
           l == List(client, ListedBy(op[g]), arg[g].id,
                     PageParams(arg[g].params, pos, PageSize), env)
           all == allItems[g] \o l.items
       IN  /\ wire' = [wire EXCEPT ![g] = @ \o l.sent]
           /\ pages' = [pages EXCEPT ![g] = Append(@, [n |-> Len(l.items),
                                                       err |-> l.err])]
           /\ IF PageFailed(l.err)
              THEN /\ pc' = [pc EXCEPT ![g] = "done"]
                   /\ ret' = [ret EXCEPT ![g] = [res |-> NilRes, err |-> l.err]]
                   /\ UNCHANGED <<position, allItems>>
              ELSE /\ allItems' = [allItems EXCEPT ![g] = all]
                   /\ IF LastPage(Len(l.items), pos, PageSize, l.TotalCount)
                      THEN /\ pc' = [pc EXCEPT ![g] = "done"]
                           /\ ret' = [ret EXCEPT ![g] = [res |-> SliceRes(all),
                                                         err |-> NilErr]]
                           /\ position' = position
                      ELSE /\ pc' = pc
                           /\ ret' = ret
                           /\ position' = [position EXCEPT
                                             ![Frame(g)] = NextPosition(pos, PageSize)]
    /\ UNCHANGED <<client, op, arg, last, checkVars, srvN, honest, maxTotal, bare, ctx>>

\* goroutine g calls CheckDomainValidationStatus: the call up to its loop
GoCheck(g) ==
    /\ pc[g] = "idle"
    /\ \E script \in Scripts(PollAnswers) :
         /\ op' = [op EXCEPT ![g] = "CheckDomainValidationStatus"]
         /\ arg' = [arg EXCEPT ![g] = [id |-> 0, maxRetries |-> MaxScript,
                                       script |-> script, c |-> client]]
    /\ attempt' = [attempt EXCEPT ![Frame(g)] = 0]
    /\ pc' = [pc EXCEPT ![g] = "poll"]
    /\ UNCHANGED <<client, wire, ret, last, sleeps, outcomes, listVars, ctx>>

\* the body of the loop of goroutine g up to its return or its sleep
GoPoll(g) ==
    /\ pc[g] = "poll"
    /\ LET p == GetDomainValidationStatus(
                    client, Served(ScriptAt(arg[g].script, Len(outcomes[g]) + 1), 0))
           next == PollResult(p.err, p.status)
       IN  /\ wire' = [wire EXCEPT ![g] = @ \o p.sent]
           /\ outcomes' = [outcomes EXCEPT ![g] = Append(@, [status |-> p.status,
                                                             err |-> p.err])]
           /\ pc' = [pc EXCEPT ![g] = IF next = "sleep" THEN "sleep" ELSE "done"]
           /\ ret' = [ret EXCEPT ![g] = IF next = "return err"
                                        THEN [res |-> NilRes, err |-> p.err]
                                        ELSE @]
           /\ sleeps' = [sleeps EXCEPT ![g] = IF next = "sleep" THEN @ + 1 ELSE @]
    /\ UNCHANGED <<client, op, arg, last, attempt, listVars, ctx>>

\* time.Sleep of goroutine g returns; continue: attempt++ and the test
GoSleep(g) ==
    /\ pc[g] = "sleep"
    /\ attempt' = [attempt EXCEPT ![Frame(g)] = @ + 1]
    /\ IF MoreAttempts(attempt[Frame(g)] + 1, arg[g].maxRetries)
       THEN pc' = [pc EXCEPT ![g] = "poll"] /\ ret' = ret
       ELSE /\ pc' = [pc EXCEPT ![g] = "done"]
            /\ ret' = [ret EXCEPT ![g] = [res |-> NilRes, err |-> Err(MsgMaxRetries, 0)]]
    /\ UNCHANGED <<client, op, arg, wire, last, sleeps, outcomes, listVars, ctx>>

ConcurrentNext ==
    \E g \in Goroutines :
       \/ GoListAll(g)
       \/ GoListAllStep(g)
       \/ GoCheck(g)
       \/ GoPoll(g)
       \/ GoSleep(g)

SpecConcurrent == ConcurrentInit /\ [][ConcurrentNext]_vars

----------------------------------------------------------------------------
(* Properties of CheckDomainValidationStatus *)

\* e is the status-mismatch error of sendRequest for the status code
IsStatusErr(e, code) == e.msg = MsgStatus /\ e.code = code

Checking == op = "CheckDomainValidationStatus"
ErrMaxRetries == Err(MsgMaxRetries, 0)
PollOK(i) == outcomes[i].err = NilErr
AllNotValidated ==
    \A i \in 1..Len(outcomes) : PollOK(i) /\ outcomes[i].status = "NOT_VALIDATED"

\* C1: while every poll succeeds and reports "NOT_VALIDATED", the call never
\* polls more than max(maxRetries, 0) times, and it returns exactly after that
\* many polls, with the "max retries reached" error (for maxRetries <= 0 with
\* no poll at all); it returns that error in no other case.
C1_MaxRetriesAfterExactlyN ==
    Checking =>
      /\ AllNotValidated =>
           /\ Len(outcomes) <= Max(arg.maxRetries, 0)
           /\ Len(wire) <= Len(outcomes)
           /\ pc = "done" => /\ ret.err = ErrMaxRetries
                             /\ Len(outcomes) = Max(arg.maxRetries, 0)
      /\ ret.err = ErrMaxRetries => pc = "done" /\ AllNotValidated

C1_Witness ==
    /\ Checking /\ pc = "done" /\ arg.maxRetries = 3
    /\ Len(outcomes) = 3 /\ Len(wire) = 3 /\ AllNotValidated
    /\ ret.err = ErrMaxRetries

\* C2: a poll that succeeds and reports anything but the literal
\* "NOT_VALIDATED" is the last poll of the call: the call has returned nil
\* right after it, having made exactly that many polls.
C2_OtherStatusReturnsNil ==
    Checking =>
      \A k \in 1..Len(outcomes) :
        (PollOK(k) /\ outcomes[k].status # "NOT_VALIDATED") =>
          /\ k = Len(outcomes)
          /\ k <= arg.maxRetries
          /\ Len(wire) = k
          /\ pc = "done"
          /\ ret = [res |-> NilRes, err |-> NilErr]

C2_Witness ==
    /\ Checking /\ pc = "done" /\ Len(outcomes) = 2
    /\ PollOK(1) /\ outcomes[1].status = "NOT_VALIDATED"
    /\ PollOK(2) /\ outcomes[2].status \in {"FAILED", "", "not_validated"}
    /\ ret.err = NilErr

\* C3: a poll that fails is the last poll of the call: the call has returned
\* the error of that poll, not "max retries reached", and it has slept only
\* after the polls before it.
C3_PollErrorReturnsAtOnce ==
    Checking =>
      \A k \in 1..Len(outcomes) :
        ~PollOK(k) =>
          /\ k = Len(outcomes)
          /\ pc = "done"
          /\ ret = [res |-> NilRes, err |-> outcomes[k].err]
          /\ ret.err # ErrMaxRetries
          /\ sleeps = k - 1

C3_Witness ==
    /\ Checking /\ pc = "done" /\ arg.maxRetries = 3 /\ Len(outcomes) = 2
    /\ ~PollOK(2) /\ sleeps = 1
    /\ \/ ret.err \in {Err(MsgMaking, 0), Err(MsgUnmarshal, 0)}
       \/ IsStatusErr(ret.err, 404)

----------------------------------------------------------------------------
(* Properties of the ListAll loops *)

Listing == op \in ListAllOps

\* C4: against a server that holds srvN items, serves the page asked for and
\* reports X-Total-Count = srvN on every page, a ListAll operation returns
\* exactly the srvN items in server order and no error; while it loops it
\* holds exactly the items before its position.
C4_ListAllReturnsAllItems ==
    (Listing /\ wire # <<>> /\ honest) =>
      /\ pc = "done" => ret = [res |-> SliceRes(PageItems(0, srvN)), err |-> NilErr]
      /\ pc = "list" => allItems = PageItems(0, position) /\ position < srvN

C4_Witness ==
    /\ Listing /\ pc = "done" /\ honest /\ srvN = 2 * PageSize /\ Len(wire) = 2
    /\ Len(ret.res.items) = 2 * PageSize

\* C5: a ListAll operation has issued at most max(1, ceil(T / 200)) page
\* requests, T being the largest X-Total-Count reported so far, whatever the
\* pages carried; it goes on to a further page only at the position 200 times
\* the number of pages fetched, and only while that position is below a
\* reported total, so that with every page request returning it ends.
C5_RequestBound ==
    Listing =>
      /\ Len(wire) <= Max(1, CeilDiv(maxTotal, PageSize))
      /\ (pc = "list" /\ wire # <<>>) =>
            (position = PageSize * Len(wire) /\ position < maxTotal)

C5_Witness ==
    /\ Listing /\ pc = "done" /\ ~honest /\ Len(wire) = 3 /\ maxTotal = 2 * PageSize + 1
    /\ Len(ret.res.items) > maxTotal

----------------------------------------------------------------------------
(* Properties of the status check *)

WriteOps ==
    {"CreateDomain", "DeleteDomain", "RevokeSSLById", "ApproveDelegation",
     "DelegateDomain", "AddAcmeAccountDomains", "UpdateSSLDetails"}

\* the status each write operation is documented to expect
ExpectedStatus(o) ==
    CASE o = "CreateDomain" -> 201
      [] o \in {"DeleteDomain", "RevokeSSLById"} -> 204
      [] OTHER -> 200

Answered == pc = "done" /\ last.called /\ ~last.terr

C7_SendRequestStatusRule ==
    (last.called /\ ~last.terr /\ ~last.rerr) =>
      (last.err = NilErr <=>
         \/ last.expected # 0 /\ last.status = last.expected
         \/ last.expected = 0 /\ last.status >= 200 /\ last.status < 300)

C7_Witness ==
    /\ op = "sendRequest" /\ pc = "done" /\ last.called /\ ~last.terr /\ ~last.rerr
    /\ last.expected = 0 /\ last.status = 299 /\ last.err = NilErr

----------------------------------------------------------------------------
(* Properties of the authenticating transport *)

\* C8: every request the wrapped transport receives carries login,
\* customerUri and password of the configuration and Content-Type
\* "application/json;charset=utf-8", whatever the caller had set.
C8_AuthHeadersOnEveryRequest ==
    \E config \in Configs :
      /\ client = NewClient(config)
      /\ \A i \in 1..Len(wire) :
           /\ wire[i].hdr.login = config.Username
           /\ wire[i].hdr.customerUri = config.Customer
           /\ wire[i].hdr.password = config.Password
           /\ wire[i].hdr.ContentType = "application/json;charset=utf-8"

C8_Witness ==
    /\ op = "sendRequest" /\ pc = "done" /\ Len(wire) = 1
    /\ arg.hdr.login = "caller" /\ arg.hdr.ContentType = "text/plain"
    /\ wire[1].hdr.login = "user"

----------------------------------------------------------------------------
(* Properties of the local validation *)

Revoked == op = "RevokeSSLById" /\ pc = "done"

OnePost ==
    /\ Len(wire) = 1
    /\ wire[1].method = "POST"
    /\ wire[1].path = "/api/ssl/v1/revoke/%d"
    /\ wire[1].id = arg.id

\* C9 as stated: a reason of length 0 or above 512 gives the reason error and
\* no request, a reason of length 1..512 gives exactly one POST.
C9_Original ==
    Revoked =>
      IF arg.reasonLen = 0 \/ arg.reasonLen > 512
      THEN wire = <<>> /\ ret.err = Err(MsgReason, 0)
      ELSE OnePost

\* C9, amended: a reason of length 0 or above 512 gives the reason error and
\* no request; a reason of length 1..512 gives exactly one POST to
\* /api/ssl/v1/revoke/{id} when the request can be built from the base URL of
\* the client, and "error creating request" with no request when it cannot.
C9_ReasonGate ==
    Revoked =>
      IF arg.reasonLen = 0 \/ arg.reasonLen > 512
      THEN wire = <<>> /\ ret.err = Err(MsgReason, 0)
      ELSE IF client.BaseURL = "valid"
      THEN OnePost /\ ret.err # Err(MsgReason, 0)
      ELSE wire = <<>> /\ ret.err = Err(MsgCreating, 0)

C9_Witness ==
    /\ Revoked /\ arg.reasonLen = 512 /\ OnePost /\ ret.err = NilErr

Updated == op = "UpdateSSLDetails" /\ pc = "done"

OnePut == Len(wire) = 1 /\ wire[1].method = "PUT" /\ wire[1].path = "/api/ssl/v1"

\* C10 as stated: a request the validator rejects gives a nil result, the
\* error of the validator and no request; one it accepts gives exactly one PUT.
C10_Original ==
    Updated =>
      IF validateUpdateSSLDetailsRequest(arg.request) # NilErr
      THEN /\ wire = <<>>
           /\ ret = [res |-> NilRes, err |-> validateUpdateSSLDetailsRequest(arg.request)]
      ELSE OnePut

\* C10, amended: a request the validator rejects gives a nil result, the error
\* of the validator and no request; one it accepts gives exactly one PUT to
\* /api/ssl/v1 when the base URL of the client parses, and "error parsing base
\* URL" with no request when it does not.
C10_ValidationGate ==
    Updated =>
      IF validateUpdateSSLDetailsRequest(arg.request) # NilErr
      THEN /\ wire = <<>>
           /\ ret = [res |-> NilRes, err |-> validateUpdateSSLDetailsRequest(arg.request)]
      ELSE IF client.BaseURL = "valid"
      THEN OnePut
      ELSE wire = <<>> /\ ret = [res |-> NilRes, err |-> Err(MsgParsingURL, 0)]

C10_Witness ==
    /\ Updated /\ arg.request.Term = -1 /\ wire = <<>>
    /\ ret = [res |-> NilRes, err |-> Err("term must be at least 1", 0)]

\* the conditions under which a request is valid: a string is kept as its
\* length in bytes
IdOK(v) == v = 0 \/ v >= 1

C11_AllHold(request) ==
    /\ request.SSLId >= 1
    /\ IdOK(request.Term) /\ IdOK(request.CertTypeId) /\ IdOK(request.OrgId)
    /\ IdOK(request.RequesterAdminId)
    /\ request.ApproverAdminId >= -1
    /\ request.CSR.len = 0 \/ (request.CSR.charsOK /\ request.CSR.len <= 32767)
    /\ request.Comments <= 1024
    /\ \A i \in 1..Len(request.CustomFields) :
         /\ request.CustomFields[i].nameLen >= 1
         /\ request.CustomFields[i].nameLen <= 256
         /\ request.CustomFields[i].valueLen <= 256
    /\ request.AutoRenewDetails.present =>
         /\ request.AutoRenewDetails.State \in {"", "Not scheduled", "Scheduled"}
         /\ request.AutoRenewDetails.DaysBeforeExpiration >= 0

----------------------------------------------------------------------------
(* Properties of the JSON encoding *)

Marshalled == op = "MarshalJSON" /\ pc = "done"

\* C12: an AutoRenewDetails value is encoded as the JSON literal null exactly
\* when its state is empty and its daysBeforeExpiration is 0; every other
\* value is encoded as an object that carries both state and
\* daysBeforeExpiration with the values of the fields, the one at its zero
\* value included; the encoding never fails.
C12_NullOnlyForZeroValue ==
    Marshalled =>
      /\ ret.err = NilErr
      /\ ret.res.json.kind = "null" <=>
            (arg.details.State = "" /\ arg.details.DaysBeforeExpiration = 0)
      /\ ret.res.json.kind # "null" =>
            /\ ret.res.json.kind = "object"
            /\ ret.res.json.has = {"state", "daysBeforeExpiration"}
            /\ ret.res.json.state = arg.details.State
            /\ ret.res.json.daysBeforeExpiration = arg.details.DaysBeforeExpiration

C12_Witness ==
    /\ Marshalled /\ arg.details.State = "Scheduled"
    /\ arg.details.DaysBeforeExpiration = 0
    /\ ret.res.json.kind = "object" /\ "daysBeforeExpiration" \in ret.res.json.has

----------------------------------------------------------------------------
(* Properties of the error message of sendRequest *)

Mismatch == last.called /\ ~last.terr /\ ~last.rerr /\ last.err.msg = MsgStatus

\* C15: on a status mismatch the error of sendRequest carries the actual
\* status code and the first min(len(body), 500) bytes of the body, followed
\* by "... (truncated)" exactly when the body is longer than 500 bytes: a body
\* of exactly 500 bytes is shown whole and unmarked.
C15_ErrorBodyTruncated ==
    Mismatch =>
      /\ last.err.code = last.status
      /\ last.err.response.len = Min(last.bodyLen, 500)
      /\ last.err.response.marked <=> last.bodyLen > 500

C15_Witness ==
    /\ op = "sendRequest" /\ pc = "done" /\ Mismatch /\ last.status = 400
    /\ last.bodyLen = 500 /\ ret.err.response = [len |-> 500, marked |-> FALSE]

----------------------------------------------------------------------------
(* Properties of the handling of the response body *)

\* C16 as stated: whenever the round trip succeeded, the body of the response
\* has been read to its end (or to its read error) and closed when sendRequest
\* returns, with the debug flag on or off.
C16_Original ==
    (last.called /\ ~last.terr) =>
      /\ last.transportBody.drained
      /\ last.transportBody.closed

----------------------------------------------------------------------------
(* Properties of the query of the List operations *)

\* a List operation has returned and its request reached the transport
Listed(r) == op = ListName(r) /\ pc = "done" /\ Len(wire) = 1

\* how many times the query q carries the key, and with the value
Count(q, key) == Cardinality({i \in 1..Len(q) : q[i].key = key})
CountValue(q, key, value) ==
    Cardinality({i \in 1..Len(q) : q[i].key = key /\ q[i].value = value})

IsZero(field, v) == IF field \in IntFields THEN v = 0 ELSE v = ""
Decimal(field, v) == IF field \in IntFields THEN ToString(v) ELSE v

\* the parameters that are sent whatever their value
AlwaysSent(r) ==
    {"size", "position"} \cup (IF r = "AcmeAccount" THEN {"organizationId"} ELSE {})

\* C13 as stated: a parameter is in the query only when the field of the
\* caller's struct is not at its zero value, and no parameter is sent with
\* the value "" or 0.
C13_Original ==
    \A r \in Resources :
      Listed(r) =>
        /\ \A i \in 1..Len(Filters(r)) :
             Count(wire[1].query, Filters(r)[i].key) > 0 =>
               ~IsZero(Filters(r)[i].field, arg.params[Filters(r)[i].field])
        /\ \A j \in 1..Len(wire[1].query) : wire[1].query[j].value \notin {"", "0"}

\* C13, amended: size and position, and organizationId in ListAcmeAccount,
\* are in the query of every request, also when they are 0; every other
\* parameter is in the query only when the field of the caller's struct is
\* not at its zero value, and is never sent with the value "" or 0.
C13_OptionalFiltersOmitted ==
    \A r \in Resources :
      Listed(r) =>
        /\ \A i \in 1..Len(Filters(r)) :
             IF Filters(r)[i].key \in AlwaysSent(r)
             THEN Count(wire[1].query, Filters(r)[i].key) = 1
             ELSE Count(wire[1].query, Filters(r)[i].key) > 0 =>
                    ~IsZero(Filters(r)[i].field, arg.params[Filters(r)[i].field])
        /\ \A j \in 1..Len(wire[1].query) :
             wire[1].query[j].key \notin AlwaysSent(r) =>
               wire[1].query[j].value \notin {"", "0"}

C13_Witness ==
    /\ Listed("AcmeAccount") /\ arg.params = ZeroParams("AcmeAccount")
    /\ wire[1].query = <<[key |-> "size", value |-> "0"],
                         [key |-> "position", value |-> "0"],
                         [key |-> "organizationId", value |-> "0"]>>

\* C14 as stated: every field that is not at its zero value (a non-empty
\* string, an integer other than 0, negative ones included) is in the query
\* exactly once, under its key and with the caller's value.
C14_Original ==
    \A r \in Resources :
      Listed(r) =>
        \A i \in 1..Len(Filters(r)) :
          LET f == Filters(r)[i]
              v == arg.params[f.field]
          IN  ~IsZero(f.field, v) =>
                /\ Count(wire[1].query, f.key) = 1
                /\ CountValue(wire[1].query, f.key, Decimal(f.field, v)) = 1

\* the integer filters that are sent only when positive
PositiveOnly ==
    {"OrgId", "Org", "Department", "ExpiresIn", "ExpiresWithinNextDays", "SSLTypeId",
     "KeySize"}

\* C14, amended: every non-empty string field, every positive integer field
\* and a StickyExpiresWithinNextDays other than 0 is in the query exactly
\* once, under its key and with the caller's value (an integer in decimal); a
\* negative value of orgId, org, department, expiresIn, expiresWithinNextDays,
\* sslTypeId or keySize is left out of the query.
C14_SetFiltersSentOnce ==
    \A r \in Resources :
      Listed(r) =>
        \A i \in 1..Len(Filters(r)) :
          LET f == Filters(r)[i]
              v == arg.params[f.field]
          IN  IF f.field \in PositiveOnly /\ v < 0
              THEN Count(wire[1].query, f.key) = 0
              ELSE ~IsZero(f.field, v) =>
                     /\ Count(wire[1].query, f.key) = 1
                     /\ CountValue(wire[1].query, f.key, Decimal(f.field, v)) = 1

C14_Witness ==
    /\ Listed("AcmeAccountDomain") /\ arg.params = SetParams("AcmeAccountDomain", -1, "x")
    /\ wire[1].query = <<[key |-> "size", value |-> "-1"],
                         [key |-> "position", value |-> "-1"],
                         [key |-> "name", value |-> "x"],
                         [key |-> "stickyExpiresWithinNextDays", value |-> "-1"]>>

----------------------------------------------------------------------------
(* Properties of the results *)

\* the operations that return a result and an error
ReadOps ==
    {"GetDomainDetails", "GetSSLDetails", "ListOrganization",
     "StartDomainCNameValidation", "SubmitDomainCNameValidation",
     "GetDomainValidationStatus", "UpdateSSLDetails"}
ResultOps == ReadOps \cup ListOps \cup ListAllOps

ResultOnly == ret.err = NilErr /\ ~ret.res.isNil
ErrorOnly == ret.err # NilErr /\ ret.res = NilRes

\* C17 as stated: every operation that returns a result and an error returns
\* a non-nil result with a nil error or a nil result with a non-nil error.
C17_Original ==
    (pc = "done" /\ op \in ResultOps) => (ResultOnly \/ ErrorOnly)

\* C17, amended: every operation that returns a result and an error returns
\* a non-nil result with a nil error or a nil result with a non-nil error,
\* except that a ListAll operation whose pages carried no item returns a nil
\* slice with a nil error; with an error the result is always nil, and a
\* ListAll operation that returns no error returns every item it fetched.
C17_ResultOrError ==
    (pc = "done" /\ op \in ResultOps) =>
      /\ ret.err # NilErr => ret.res = NilRes
      /\ ret.err = NilErr =>
            IF op \in ListAllOps
            THEN /\ ret.res = SliceRes(allItems)
                 /\ ret.res.isNil <=> allItems = <<>>
            ELSE ~ret.res.isNil

C17_Witness ==
    /\ op = "ListAllAcmeAccountDomain" /\ pc = "done" /\ Len(wire) = 2
    /\ ret.err # NilErr /\ ret.res = NilRes /\ Len(allItems) = PageSize

\* C18 as stated: the Content-Type the wrapped transport receives is
\* "application/json" for RevokeSSLById, "application/json;charset=UTF-8" for
\* GetSSLDetails and UpdateSSLDetails and "application/json;charset=utf-8" for
\* every other operation.
C18_Original ==
    \A i \in 1..Len(wire) :
      wire[i].hdr.ContentType =
        CASE op = "RevokeSSLById" -> "application/json"
          [] op \in {"GetSSLDetails", "UpdateSSLDetails"} -> "application/json;charset=UTF-8"
          [] OTHER -> "application/json;charset=utf-8"

----------------------------------------------------------------------------
(* Properties of the loops without a total and of the sleeps *)

\* a ListAll operation all of whose pages so far carried exactly 200 items
\* and no X-Total-Count header
BareListing == Listing /\ wire # <<>> /\ bare

\* C19 as stated: with exactly 200 items on every page and no X-Total-Count
\* header, a ListAll operation does not return: it is still in its loop.
C19_Original ==
    BareListing => pc = "list"

\* C19, amended: with exactly 200 items on the first page and no
\* X-Total-Count header, a ListAll operation returns after that page: it has
\* issued one request and returns the 200 items of the page and no error.
C19_FullPageNoTotalEnds ==
    BareListing =>
      /\ pc = "done"
      /\ Len(wire) = 1
      /\ ret = [res |-> SliceRes(PageItems(0, PageSize)), err |-> NilErr]

C19_Witness ==
    /\ BareListing /\ op = "ListAllSSL" /\ pc = "done"
    /\ Len(ret.res.items) = PageSize /\ maxTotal = 0

\* the polls so far that succeeded and reported "NOT_VALIDATED"
Pending == {i \in 1..Len(outcomes) : PollOK(i) /\ outcomes[i].status = "NOT_VALIDATED"}

\* C20 as stated: a run that ends with the max-retries error after N >= 1
\* attempts has slept N - 1 times.
C20_Original ==
    (Checking /\ pc = "done" /\ ret.err = ErrMaxRetries /\ Len(outcomes) >= 1) =>
      sleeps = Len(outcomes) - 1

\* C20, amended: CheckDomainValidationStatus sleeps after every poll that
\* reports "NOT_VALIDATED", the one of the last attempt included, and after
\* no other poll: a run that exhausts N attempts has slept N times when it
\* returns the max-retries error.
C20_SleepAfterEveryPendingPoll ==
    Checking =>
      /\ sleeps = Cardinality(Pending)
      /\ pc = "sleep" => Len(outcomes) \in Pending
      /\ (pc = "done" /\ ret.err = ErrMaxRetries) =>
            /\ sleeps = Len(outcomes)
            /\ sleeps = Max(arg.maxRetries, 0)

C20_Witness ==
    /\ Checking /\ pc = "done" /\ ret.err = ErrMaxRetries
    /\ arg.maxRetries = 2 /\ Len(outcomes) = 2 /\ sleeps = 2

----------------------------------------------------------------------------
(* Properties of the order of the validation rules *)

\* the rule an error message of the validator belongs to
RuleOf(msg) ==
    CASE msg = "<nil>" -> "none"
      [] msg = "sslId must be at least 1" -> "sslId"
      [] msg = "term must be at least 1" -> "term"
      [] msg = "certTypeId must be at least 1" -> "certTypeId"
      [] msg = "orgId must be at least 1" -> "orgId"
      [] msg = "requesterAdminId must be at least 1" -> "requesterAdminId"
      [] msg = "approverAdminId must be at least -1" -> "approverAdminId"
      [] msg \in {"csr must match the regular expression [a-zA-Z0-9-+=\\/\\s]+",
                  "csr size must be between 1 and 32767 inclusive"} -> "CSR"
      [] msg = "comments maximum length is 1024 characters or can be empty" -> "comments"
      [] msg \in {"custom field name must not be null",
                  "custom field name size must be between 1 and 256 inclusive",
                  "custom field value maximum length is 256 characters or can be empty"}
           -> "custom fields"
      [] msg \in {"autoRenewDetails.state allowed values are 'Not scheduled' and 'Scheduled'",
                  "autoRenewDetails.daysBeforeExpiration must be at least 1"}
           -> "autoRenewDetails"
      [] OTHER -> "other"

\* whether a request violates a rule
Violates(rule, request) ==
    CASE rule = "sslId" -> request.SSLId < 1
      [] rule = "term" -> ~IdOK(request.Term)
      [] rule = "certTypeId" -> ~IdOK(request.CertTypeId)
      [] rule = "orgId" -> ~IdOK(request.OrgId)
      [] rule = "requesterAdminId" -> ~IdOK(request.RequesterAdminId)
      [] rule = "approverAdminId" -> request.ApproverAdminId < -1
      [] rule = "CSR" ->
           request.CSR.len > 0 /\ (~request.CSR.charsOK \/ request.CSR.len > 32767)
      [] rule = "comments" -> request.Comments > 1024
      [] rule = "custom fields" ->
           \E i \in 1..Len(request.CustomFields) :
              \/ request.CustomFields[i].nameLen < 1
              \/ request.CustomFields[i].nameLen > 256
              \/ request.CustomFields[i].valueLen > 256
      [] rule = "autoRenewDetails" ->
           /\ request.AutoRenewDetails.present
           /\ \/ request.AutoRenewDetails.State \notin {"", "Not scheduled", "Scheduled"}
              \/ request.AutoRenewDetails.DaysBeforeExpiration < 0

\* the first rule of an order that a request violates ("none": no rule)
FirstViolated(order, request) ==
    LET bad == {i \in 1..Len(order) : Violates(order[i], request)}
    IN  IF bad = {} THEN "none" ELSE order[CHOOSE i \in bad : \A j \in bad : i <= j]

\* the rules a request violates
ViolatedRules(request) ==
    {rule \in {"sslId", "term", "certTypeId", "orgId", "requesterAdminId",
               "approverAdminId", "CSR", "comments", "custom fields",
               "autoRenewDetails"} : Violates(rule, request)}

ListedOrder ==
    <<"sslId", "term", "certTypeId", "orgId", "requesterAdminId", "approverAdminId",
      "CSR", "comments", "custom fields", "autoRenewDetails">>

CheckedOrder ==
    <<"sslId", "term", "certTypeId", "orgId", "CSR", "comments", "custom fields",
      "autoRenewDetails", "requesterAdminId", "approverAdminId">>

\* C22 as stated: the error returned for a request that violates rules is
\* that of the first violated rule in the order sslId, term, certTypeId, orgId,
\* requesterAdminId, approverAdminId, CSR, comments, custom fields,
\* autoRenewDetails.
C22_Original ==
    (Updated /\ Cardinality(ViolatedRules(arg.request)) >= 2) =>
      RuleOf(ret.err.msg) = FirstViolated(ListedOrder, arg.request)

\* C22, amended: the validator returns the error of the first violated rule
\* in the order sslId, term, certTypeId, orgId, CSR, comments, custom fields,
\* autoRenewDetails, requesterAdminId, approverAdminId, and UpdateSSLDetails
\* returns that one error.
C22_FirstViolatedRuleInCodeOrder ==
    Updated =>
      /\ RuleOf(validateUpdateSSLDetailsRequest(arg.request).msg)
           = FirstViolated(CheckedOrder, arg.request)
      /\ FirstViolated(CheckedOrder, arg.request) # "none" =>
           /\ ret.err = validateUpdateSSLDetailsRequest(arg.request)
           /\ RuleOf(ret.err.msg) = FirstViolated(CheckedOrder, arg.request)

C22_Witness ==
    /\ Updated
    /\ Violates("requesterAdminId", arg.request) /\ Violates("CSR", arg.request)
    /\ RuleOf(ret.err.msg) = "CSR"

\* "<field> must be at least 1"
AtLeastOne(f) ==
    CASE f = "Term" -> Err("term must be at least 1", 0)
      [] f = "CertTypeId" -> Err("certTypeId must be at least 1", 0)
      [] f = "OrgId" -> Err("orgId must be at least 1", 0)
      [] f = "RequesterAdminId" -> Err("requesterAdminId must be at least 1", 0)

\* UpdateSSLDetails was called with a request in which f is 0, the other
\* three of these ids are at least 1 and every other field is valid
ZeroAlone(f) ==
    /\ Updated
    /\ arg.request[f] = 0
    /\ \A g \in OptionalIds \ {f} : arg.request[g] >= 1
    /\ \A rule \in {"sslId", "approverAdminId", "CSR", "comments", "custom fields",
                    "autoRenewDetails"} : ~Violates(rule, arg.request)

\* C30: a request in which term, certTypeId, orgId or requesterAdminId is 0
\* while every other field is valid is rejected with "<field> must be at
\* least 1" for that field.
C30_Original ==
    \A f \in OptionalIds :
       ZeroAlone(f) =>
         /\ validateUpdateSSLDetailsRequest(arg.request) = AtLeastOne(f)
         /\ ret.err = AtLeastOne(f)

----------------------------------------------------------------------------
(* Properties of TotalCount *)

ListedOne == op \in ListOps /\ pc = "done"

\* C24 as stated: TotalCount is the value of X-Total-Count when the header
\* parses as an integer and 0 otherwise, and the header never makes a List
\* operation fail.
C24_Original ==
    (ListedOne /\ ret.err = NilErr) =>
      ret.res.TotalCount = (IF last.total.kind = "int" THEN last.total.n ELSE 0)

\* C24, amended: TotalCount is the value of X-Total-Count when the header is
\* a decimal numeral in the range of int, the largest (smallest) int when it
\* is a numeral above (below) that range, and 0 when the header is absent,
\* empty or no numeral; whether the call fails does not depend on the header.
C24_TotalCountFromHeader ==
    ListedOne =>
      /\ ret.err = NilErr <=>
            /\ client.BaseURL = "valid"
            /\ last.called /\ ~last.terr /\ ~last.rerr
            /\ last.status = 200 /\ last.bodyKind \in {"array", "null"}
      /\ ret.err = NilErr =>
            ret.res.TotalCount =
              (CASE last.total.kind = "int" -> last.total.n
                 [] last.total.kind = "overflow" /\ last.total.n = 1 -> 2147483647
                 [] last.total.kind = "overflow" /\ last.total.n = -1 -> -2147483647 - 1
                 [] last.total.kind \in {"absent", "empty", "garbage"} -> 0)

C24_Witness ==
    /\ ListedOne /\ op = "ListDomain" /\ ret.err = NilErr
    /\ last.total = HugeTotal(1) /\ ret.res.TotalCount = MaxInt

----------------------------------------------------------------------------
(* Properties of a cancelled context *)

\* the context was cancelled while CheckDomainValidationStatus was sleeping
CancelledInSleep == Checking /\ ctx.cancelled /\ ctx.during = "sleep"

\* C21: when the context is cancelled during a sleep, the sleep runs to its
\* end (the loop goes on with attempt++ and its test, it does not return from
\* the sleep); no poll after the cancellation succeeds; and the call does not
\* return nil: it returns the error of the next poll when attempts remain
\* and the max-retries error when none remain.
C21_CancelDuringSleep ==
    CancelledInSleep =>
      /\ \A i \in 1..Len(outcomes) : i > ctx.polls => outcomes[i].err # NilErr
      /\ Len(outcomes) <= ctx.polls + 1
      /\ pc = "sleep" => (Len(outcomes) = ctx.polls /\ attempt = ctx.polls - 1)
      /\ pc = "done" =>
            /\ attempt = ctx.polls
            /\ ret.err # NilErr
            /\ IF ctx.polls < arg.maxRetries
               THEN /\ Len(outcomes) = ctx.polls + 1
                    /\ ret.err = outcomes[ctx.polls + 1].err
                    /\ ret.err = Err(MsgMaking, 0)
               ELSE /\ Len(outcomes) = ctx.polls
                    /\ ret.err = ErrMaxRetries

C21_Witness ==
    /\ CancelledInSleep /\ pc = "done" /\ ctx.polls = 1 /\ arg.maxRetries = 3
    /\ Len(outcomes) = 2 /\ ret.err = Err(MsgMaking, 0)

----------------------------------------------------------------------------
(* Properties of the requests of a call *)

\* the methods that send one request
SingleOps == WriteOps \cup ReadOps \cup ListOps

\* the value the query q carries under a key it carries once
ValueOf(q, key) == q[CHOOSE i \in 1..Len(q) : q[i].key = key].value

\* C23: a method other than CheckDomainValidationStatus never sends a request
\* again: a single-resource method sends at most one request, a ListAll
\* operation sends at most one request per call of its List operation and no
\* two requests with the same position, and once a request has failed the
\* method has returned that error, the failed request being its last.
C23_NoRetry ==
    /\ op \in SingleOps => Len(wire) <= 1
    /\ Listing =>
         /\ Len(wire) <= Len(pages)
         /\ \A i, j \in 1..Len(wire) :
              i # j => ValueOf(wire[i].query, "position") # ValueOf(wire[j].query, "position")
         /\ \A i \in 1..Len(pages) : pages[i].err # NilErr => i = Len(pages)
    /\ (op \in SingleOps \cup ListAllOps /\ last.called /\ last.err # NilErr) =>
         (pc = "done" /\ ret.err = last.err)

C23_Witness ==
    /\ Listing /\ pc = "done" /\ Len(pages) = 2 /\ Len(wire) = 2
    /\ last.err = Err(MsgMaking, 0) /\ ret.err = last.err
    /\ ValueOf(wire[1].query, "position") = "0"
    /\ ValueOf(wire[2].query, "position") = "200"

\* C25: when a page of a ListAll operation fails, whichever page it is, the
\* call has returned a nil slice and the error of that page, without the
\* items of the pages before it, and that page is the last one requested.
C25_FailedPageEndsListAll ==
    Listing =>
      /\ \A i \in 1..Len(pages) :
           pages[i].err # NilErr =>
             /\ i = Len(pages)
             /\ pc = "done"
             /\ ret.err = pages[i].err
             /\ ret.res = NilRes /\ ret.res.isNil /\ ret.res.items = <<>>
      /\ (pc = "done" /\ ret.err # NilErr) => pages[Len(pages)].err = ret.err

C25_Witness ==
    /\ Listing /\ pc = "done" /\ Len(pages) = 2
    /\ pages[1].err = NilErr /\ pages[1].n = PageSize /\ Len(allItems) = PageSize
    /\ pages[2].err # NilErr /\ ret = [res |-> NilRes, err |-> pages[2].err]

\* the decimal form of the position of page 1, 2, ...
PositionText == <<"0", "200", "400", "600", "800">>

\* C28: every request of a ListAll operation carries size=200 once and, for
\* request number i, position=200(i-1) once, whatever Size and Position the
\* caller passed; it goes to the path and the account id of the caller; and
\* every other field of the caller's parameters is in its query as in a call
\* of the List operation: once with the caller's value when it is set, and
\* not at all when it is not (organizationId of ListAllAcmeAccount: always).
C28_ListAllPaging ==
    Listing =>
      \A i \in 1..Len(wire) :
        LET r == ListedBy(op)
            q == wire[i].query
        IN  /\ Count(q, "size") = 1 /\ ValueOf(q, "size") = "200"
            /\ Count(q, "position") = 1 /\ ValueOf(q, "position") = PositionText[i]
            /\ wire[i].path = ListPath(r) /\ wire[i].id = arg.id
            /\ \A k \in 1..Len(Filters(r)) :
                 LET f == Filters(r)[k]
                     v == arg.params[f.field]
                 IN  f.key \notin {"size", "position"} =>
                       IF IsZero(f.field, v)
                       THEN Count(q, f.key) = (IF f.key \in AlwaysSent(r) THEN 1 ELSE 0)
                       ELSE /\ Count(q, f.key) = 1
                            /\ ValueOf(q, f.key) = Decimal(f.field, v)

C28_Witness ==
    /\ op = "ListAllAcmeAccountDomain" /\ pc = "done" /\ Len(wire) = 3 /\ arg.id = 2
    /\ arg.params.Size = 10 /\ arg.params.Position = 7 /\ arg.params.Name = "x"
    /\ ValueOf(wire[3].query, "position") = "400"
    /\ ValueOf(wire[3].query, "name") = "x"

\* the items of the first k pages, page j being the pages[j].n items the
\* server holds from position 200(j-1) on
RECURSIVE ConcatPages(_, _)
ConcatPages(pp, k) ==
    IF k = 0 THEN <<>>
    ELSE ConcatPages(pp, k - 1) \o PageItems(PageSize * (k - 1), pp[k].n)

\* C29: a page of fewer than 200 items ends a ListAll operation, whatever its
\* X-Total-Count: the call has returned, with a nil error, the items of all
\* the pages fetched in order, and no page was requested after a short one.
C29_ShortPageEndsListAll ==
    Listing =>
      \A i \in 1..Len(pages) :
        (pages[i].err = NilErr /\ pages[i].n < PageSize) =>
          /\ i = Len(pages)
          /\ pc = "done"
          /\ ret.err = NilErr
          /\ ret.res.items = ConcatPages(pages, Len(pages))

C29_Witness ==
    /\ Listing /\ pc = "done" /\ Len(pages) = 2
    /\ pages[2].n = PageSize - 1 /\ maxTotal = 2 * PageSize + 1
    /\ ret.err = NilErr /\ Len(ret.res.items) = 2 * PageSize - 1

----------------------------------------------------------------------------
(* Properties of the debug flag *)

\* the client with its debug flag at d
WithDebug(c, d) == [c EXCEPT !.transport.debug = d, !.Debug = d]

\* C26: what sendRequest reports (status code, body, error) and the request
\* body the wrapped transport receives are what they are for the same request
\* and the same behaviour of the wrapped transport with the debug flag off,
\* and with the debug flag on.
C26_Original ==
    (pc = "done" /\ op \in SingleOps \cup {"sendRequest"} /\ last.called) =>
      \A d \in BOOLEAN :
        LET out == sendRequest(WithDebug(client, d), wire[Len(wire)], last.expected,
                               last.env)
        IN  /\ out.sent.body = wire[Len(wire)].body
            /\ out.err = last.err
            /\ out.hasResp => out.resp.status = last.status
            /\ (IF out.hasBody THEN out.body.kind ELSE "none") = last.bodyKind
            /\ (IF out.hasBody THEN out.body.len ELSE 0) = last.bodyLen

----------------------------------------------------------------------------
(* Properties of concurrent calls *)

\* a ListAll operation run on its own from the state st of its loop: the
\* requests it sends and what it returns
RECURSIVE ListAllAlone(_, _, _, _)
ListAllAlone(c, o, a, st) ==
    LET env == Served(ScriptAt(a.script, st.k + 1), st.position)
        l == List(c, ListedBy(o), a.id, PageParams(a.params, st.position, PageSize), env)
        sent == st.wire \o l.sent
        all == st.allItems \o l.items
    IN  IF l.err # NilErr
        THEN [wire |-> sent, ret |-> [res |-> NilRes, err |-> l.err]]
        ELSE IF Len(l.items) < PageSize \/ st.position + PageSize >= l.TotalCount
        THEN [wire |-> sent, ret |-> [res |-> SliceRes(all), err |-> NilErr]]
        ELSE ListAllAlone(c, o, a, [k |-> st.k + 1, position |-> st.position + PageSize,
                                    wire |-> sent, allItems |-> all])

\* CheckDomainValidationStatus run on its own from the state st of its loop
RECURSIVE CheckAlone(_, _, _)
CheckAlone(c, a, st) ==
    IF st.attempt >= a.maxRetries
    THEN [wire |-> st.wire, ret |-> [res |-> NilRes, err |-> Err(MsgMaxRetries, 0)]]
    ELSE LET p == GetDomainValidationStatus(c, Served(ScriptAt(a.script, st.k + 1), 0))
             sent == st.wire \o p.sent
         IN  IF p.err # NilErr
             THEN [wire |-> sent, ret |-> [res |-> NilRes, err |-> p.err]]
             ELSE IF p.status = "NOT_VALIDATED"
             THEN CheckAlone(c, a, [k |-> st.k + 1, attempt |-> st.attempt + 1,
                                    wire |-> sent])
             ELSE [wire |-> sent, ret |-> NoRet]

\* the call of goroutine g, run alone on the client against its script
Alone(g) ==
    IF op[g] = "CheckDomainValidationStatus"
    THEN CheckAlone(client, arg[g], [k |-> 0, attempt |-> 0, wire |-> <<>>])
    ELSE ListAllAlone(client, op[g], arg[g],
                      [k |-> 0, position |-> 0, wire |-> <<>>, allItems |-> <<>>])

IsPrefix(s, t) == Len(s) <= Len(t) /\ \A i \in 1..Len(s) : s[i] = t[i]

\* every call has so far sent the requests it sends when run alone, in the
\* same order, and a call that has returned has sent all of them and
\* returned what it returns when run alone
AsAlone ==
    \A g \in Goroutines :
       op[g] # "none" =>
         /\ IsPrefix(wire[g], Alone(g).wire)
         /\ pc[g] = "done" => (wire[g] = Alone(g).wire /\ ret[g] = Alone(g).ret)

\* C27: the Client and its transport are as they were when each call began,
\* whatever the calls have done since, and calls running concurrently on one
\* Client do not interfere: under every interleaving each call sends the
\* requests and returns the result it sends and returns when run alone
\* against the same answers of the server.
C27_NoInterference ==
    /\ \A g \in Goroutines : op[g] # "none" => client = arg[g].c
    /\ AsAlone

C27_Witness ==
    /\ op[1] = "ListAllDomain" /\ pc[1] = "done" /\ Len(wire[1]) = 3
    /\ Len(ret[1].res.items) = 3 * PageSize
    /\ op[2] = "ListAllSSL" /\ pc[2] = "list" /\ position[2] = PageSize
    /\ Len(wire[2]) = 1

====
